---- MODULE Spec2Model ----
(***************************************************************************)
(* Cryocooler controller: the supervisory state machine of                 *)
(* src/src/state_machine.cpp, modelled as a state machine whose actions    *)
(* are the public operations update(), start(), stop() and off().          *)
(*                                                                         *)
(* Temperatures are whole Kelvin, voltages whole volts, times are          *)
(* milliseconds (uint32_t arithmetic, modulo 2^32), DAC values are         *)
(* uint16_t counts.                                                        *)
(***************************************************************************)
EXTENDS Integers, Naturals, Sequences, FiniteSets, TLC

(***************************************************************************)
(* Program constants (src/include/config.h)                                *)
(***************************************************************************)
MCP4921_MAX_VALUE == 4095
RMS_MAX_VOLTAGE_VDC == 120
SETPOINT_K == 78
COARSE_FINE_THRESHOLD_K == 85
AMBIENT_START_K == 295
SETPOINT_TOLERANCE_K == 2
MAX_COOLDOWN_RATE_K_PER_MIN == 1
SETTLE_DURATION_MS == 60000
BASELINE_DURATION_MS == 300000
BACKOFF_DAC_STEP == 200
BACKOFF_MAX_COUNT == 10
INDICATOR_INIT_AMBER_MS == 1500
DAC_MAX_STEP_PER_INTERVAL == 5
STALL_DETECT_WINDOW_MS == 600000
STALL_MIN_DROP_K == 2
TEMP_HISTORY_SIZE == 20
LOOP_INTERVAL_MS == 200
OVERSTROKE_PRIME_READINGS == 20
OVERSTROKE_DEBOUNCE_MS == 2000
\* currents are whole milliamps: 2.0 A
OVERSTROKE_CURRENT_THRESHOLD_A == 2000
\* 0.08f, in hundredths
OVERSTROKE_EMA_ALPHA == 8

\* the widths of uint8_t and uint16_t
DAC_VOLTAGE_ADC_SMOOTH_PERIOD_MS == 5

DEF_NB_ACQ == 4

DEF_BIT_ACQ == 128

DEF_MSQ_NumAcq == 127

TwoTo8 == 256

TwoTo16 == 65536

(***************************************************************************)
(* Bounds of the model                                                     *)
(***************************************************************************)
\* the clock runs from 0 to MaxTimeSteps settle periods
MaxTimeSteps == 6

MaxTime == MaxTimeSteps * SETTLE_DURATION_MS

\* how far the clock may have advanced between two calls
Deltas == {0, SETTLE_DURATION_MS, BASELINE_DURATION_MS}

\* input values: each side of every threshold the code compares against
Temps == {75, 76, 80, 82, 85, 200}
Rates == {0, 2}
Voltages == {120, 121}

\* temperature.cpp: the number of read() calls, and how often the sampling
\* profile (time step, temperature drop per sample) may change on the way
MaxPushes == 22

MaxProfileChanges == 1

\* the first sample, and the profiles: the loop interval while cooling fast,
\* a whole stall window per sample while cooling at 0.5 K/min, the loop
\* interval while warming, and a repeated timestamp
FirstSampleK == 200

\* rms.cpp: the number of readCurrent() calls, the samples the sensor
\* returns (a steady current and a spike, in milliamps) and the time that
\* passes before a call: two of the shorter steps and one of the longer
\* make up the debounce interval exactly
MaxReadings == 24

Currents == {1000, 4000}

RmsDeltas == {LOOP_INTERVAL_MS, OVERSTROKE_DEBOUNCE_MS - 2 * LOOP_INTERVAL_MS}

\* dac.cpp: the rampToward calls made towards one target, and the targets
\* (the last one is above full scale)
MaxRampCalls == 821

DacTargets == {0, 3, MCP4921_MAX_VALUE, TwoTo16 - 1}

\* conversions.h: the (ambientK, setpointK, maxDac) of a call and its tempK
ConvParams == {<<AMBIENT_START_K, SETPOINT_K, MCP4921_MAX_VALUE>>,
               <<AMBIENT_START_K, SETPOINT_K, TwoTo8 - 1>>,
               <<100, 90, 7>>}

ConvTemps == 0..(AMBIENT_START_K + DAC_MAX_STEP_PER_INTERVAL)

Profiles == {<<LOOP_INTERVAL_MS, 5>>, <<STALL_DETECT_WINDOW_MS, 5>>,
             <<LOOP_INTERVAL_MS, -1>>, <<0, 0>>}

(***************************************************************************)
(* Fixed-width arithmetic                                                  *)
(***************************************************************************)
\* a - b in uint32_t.  Every timestamp the statics hold was the nowMs of an
\* earlier call and the clock never runs backwards (TimestampsInPast), so
\* a >= b at every use and the subtraction never wraps.
\* SmoothADC: the acquisitions made, the samples read and the times between
\* two calls of serviceADCPin
MaxAcq == 11

AdcSamples == {100, 300}

AdcDeltas == {0, DAC_VOLTAGE_ADC_SMOOTH_PERIOD_MS}

AdcPeriods == {0, DAC_VOLTAGE_ADC_SMOOTH_PERIOD_MS}

\* main loop: the control ticks made, the temperatures read, the time between
\* two passes of loop() and the command a pass finds on the serial line
MaxLoopTicks == 8

MaxLoopTime == MaxLoopTicks * LOOP_INTERVAL_MS

LoopTemps == {75, SETPOINT_K, AMBIENT_START_K - 1}

LoopDeltas == {0, LOOP_INTERVAL_MS}

Commands == {"", "start", "stop", "off"}

Sub32(a, b) == a - b

Max(a, b) == IF a > b THEN a ELSE b

(***************************************************************************)
(* Enumerations (src/include/state_machine.h, src/src/state_machine.cpp)   *)
(***************************************************************************)
States == {"Off", "Initialize", "Idle", "CoarseCooldown", "FineCooldown",
           "Overshoot", "Settle", "Baseline", "Operating", "Fault"}

FaultReasons == {"None", "RmsOvervoltage", "TemperatureStall", "TooManyBackoffs"}

CooldownStates == {"CoarseCooldown", "FineCooldown"}

VARIABLES
    sm,         \* the module statics of state_machine.cpp, as one record
    now,        \* millis(): the clock every call reads its nowMs from
    strokes,    \* history: overstroke-flagged update() ticks that reached the
                \* backoff check while running, since the start() in effect
    armedAt,    \* history: the time the settle timer was last armed (0 if idle)
    drifted,    \* history: some tick since then had the temperature out of band
    strayed,    \* history: some tick since Settle was entered had the
                \* temperature out of band
    temperature,\* the ring buffer statics of temperature.cpp, as one record
    pushed,     \* history: every sample given to pushSample, in order
    rms,        \* the overstroke statics of rms.cpp, as one record
    readings,   \* history: the number of readCurrent() calls made and the
                \* times at which one of them set the overstroke flag
    dac,        \* currentDacVal of dac.cpp
    ramp,       \* history: the target of the ramp in progress, the output
                \* it started from and the rampToward calls made since
    conv,       \* the arguments of one tempKToDacValue call and its result
    sPreviousLoopMs, \* main.cpp: the time of the last control tick
    coast,      \* history: the control ticks made, and since the machine
                \* entered the states whose target is 0: the DAC output it
                \* had then and the control ticks made since
    adc,        \* main.cpp: dacVoltageAdc, the SmoothADC object
    acq         \* history: the acquisitions made and the index the last
                \* one wrote at

\* the variables of the state machine and those of the other modules
smVars == <<sm, now, strokes, armedAt, drifted, strayed>>

mainVars == <<sPreviousLoopMs, coast, adc, acq>>

periph == <<temperature, pushed, rms, readings, dac, ramp, conv,
            sPreviousLoopMs, coast, adc, acq>>

vars == <<sm, now, strokes, armedAt, drifted, strayed,
          temperature, pushed, rms, readings, dac, ramp, conv,
          sPreviousLoopMs, coast, adc, acq>>

(***************************************************************************)
(* Internal helpers                                                        *)
(***************************************************************************)
enterState_keepsEntry(st, s, nowMs) ==
    LET a == [st EXCEPT !.currentState = s]
        b == IF s # "Settle"
                THEN [a EXCEPT !.settleTimerActive = FALSE, !.settleStartMs = 0]
                ELSE a
    IN  IF s # "Fault" THEN [b EXCEPT !.faultReason = "None"] ELSE b

enterState(st, s, nowMs) ==
    LET a == [st EXCEPT !.currentState = s, !.currentStateEntryMs = nowMs]
        b == IF s # "Settle"
                THEN [a EXCEPT !.settleTimerActive = FALSE, !.settleStartMs = 0]
                ELSE a
    IN  IF s # "Fault" THEN [b EXCEPT !.faultReason = "None"] ELSE b

enterFault_keepsRunning(st, reason, nowMs) ==
    enterState([st EXCEPT !.faultReason = reason], "Fault", nowMs)

enterFault_noReason(st, reason, nowMs) ==
    enterState([st EXCEPT !.running = FALSE], "Fault", nowMs)

enterFault(st, reason, nowMs) ==
    enterState([st EXCEPT !.faultReason = reason, !.running = FALSE], "Fault", nowMs)

statusTextForState(s, reason) ==
    CASE s = "Off" -> "System is off"
      [] s = "Initialize" -> "Initial power up state"
      [] s = "Idle" -> "Cold stage is warm; dewar is not cooling"
      [] s = "CoarseCooldown" -> "Cooling; cold stage is above 85K"
      [] s = "FineCooldown" -> "Cooling; cold stage is below 85K"
      [] s = "Overshoot" -> "Cold stage is cooler than set point; integrator is settling"
      [] s = "Settle" -> "Cold stage temperature is settling; circuits switched to Normal"
      [] s = "Baseline" -> "Cold stage temperature has settled; collecting baseline data"
      [] s = "Operating" -> "System is operating normally; checking for deviations from baseline"
      [] s = "Fault" ->
            CASE reason = "RmsOvervoltage" -> "Fault: RMS voltage exceeded safe limit"
              [] reason = "TemperatureStall" -> "Fault: Temperature stalled during cooldown"
              [] reason = "TooManyBackoffs" -> "Fault: Too many back-EMF stroke events; output backed off"
              [] OTHER -> "Fault: Unknown reason"
      [] OTHER -> "Unknown state"

inBand_lowerOnly(tempK) ==
    tempK >= SETPOINT_K - SETPOINT_TOLERANCE_K

inBand_strict(tempK) ==
    (tempK > (SETPOINT_K - SETPOINT_TOLERANCE_K)) /\
    (tempK < (SETPOINT_K + SETPOINT_TOLERANCE_K))

inBand(tempK) ==
    (tempK >= (SETPOINT_K - SETPOINT_TOLERANCE_K)) /\
    (tempK <= (SETPOINT_K + SETPOINT_TOLERANCE_K))

overshot_inclusive(tempK) ==
    tempK <= SETPOINT_K - SETPOINT_TOLERANCE_K

overshot(tempK) ==
    tempK < (SETPOINT_K - SETPOINT_TOLERANCE_K)

\* conversions::tempKToDacValue: the float product is truncated toward zero
\* by the cast to int32_t
tempKToDacValue_unclamped(tempK, ambientK, setpointK, maxDac) ==
    IF tempK >= ambientK THEN 0
    ELSE ((ambientK - tempK) * maxDac) \div (ambientK - setpointK)

tempKToDacValue_rounds(tempK, ambientK, setpointK, maxDac) ==
    IF tempK >= ambientK THEN 0
    ELSE IF tempK <= setpointK THEN maxDac
    ELSE LET span == ambientK - setpointK
             dropped == ambientK - tempK
         IN  (2 * dropped * maxDac + span) \div (2 * span)

\* temperatures are whole kelvins, so fraction * maxDac is the exact
\* quotient dropped * maxDac / span; the cast to int32_t truncates it
tempKToDacValue(tempK, ambientK, setpointK, maxDac) ==
    IF tempK >= ambientK THEN 0
    ELSE IF tempK <= setpointK THEN maxDac
    ELSE LET span == ambientK - setpointK
             dropped == ambientK - tempK
             raw == (dropped * maxDac) \div span
         IN  IF raw < 0 THEN 0
             ELSE IF raw > maxDac THEN maxDac
             ELSE raw

cooldownDacTarget(tempK, coolingRate) ==
    LET proportional ==
            tempKToDacValue(tempK, AMBIENT_START_K, SETPOINT_K, MCP4921_MAX_VALUE)
    IN  IF coolingRate > MAX_COOLDOWN_RATE_K_PER_MIN
           THEN proportional
           ELSE proportional

\* the backoff reduction at the head of buildOutput
applyBackoff_wraps(dacTarget, backoffDacOffset) ==
    IF backoffDacOffset > 0 /\ dacTarget > 0
       THEN (dacTarget - backoffDacOffset + TwoTo16) % TwoTo16
       ELSE dacTarget

applyBackoff(dacTarget, backoffDacOffset) ==
    IF backoffDacOffset > 0 /\ dacTarget > 0
       THEN IF backoffDacOffset >= dacTarget
               THEN 0
               ELSE dacTarget - backoffDacOffset
       ELSE dacTarget

\* relay and indicator assignments of buildOutput's switch
relaysAndIndicators(s) ==
    CASE s = "Off" ->
            [bypassRelay |-> TRUE, alarmRelay |-> FALSE,
             faultIndMode |-> "Off", readyIndMode |-> "Off"]
      [] s = "Initialize" ->
            [bypassRelay |-> TRUE, alarmRelay |-> FALSE,
             faultIndMode |-> "SolidAmber", readyIndMode |-> "SolidAmber"]
      [] s = "Idle" ->
            [bypassRelay |-> TRUE, alarmRelay |-> FALSE,
             faultIndMode |-> "SolidRed", readyIndMode |-> "Off"]
      [] s = "CoarseCooldown" ->
            [bypassRelay |-> TRUE, alarmRelay |-> FALSE,
             faultIndMode |-> "FlashFastRed", readyIndMode |-> "Off"]
      [] s = "FineCooldown" ->
            [bypassRelay |-> TRUE, alarmRelay |-> FALSE,
             faultIndMode |-> "FlashFastRed", readyIndMode |-> "FlashSlowGreen"]
      [] s = "Overshoot" ->
            [bypassRelay |-> TRUE, alarmRelay |-> FALSE,
             faultIndMode |-> "FlashFastRed", readyIndMode |-> "FlashFastGreen"]
      [] s = "Settle" ->
            [bypassRelay |-> FALSE, alarmRelay |-> FALSE,
             faultIndMode |-> "FlashFastRed", readyIndMode |-> "FlashFastGreen"]
      [] s = "Baseline" ->
            [bypassRelay |-> FALSE, alarmRelay |-> FALSE,
             faultIndMode |-> "Off", readyIndMode |-> "SolidGreen"]
      [] s = "Operating" ->
            [bypassRelay |-> FALSE, alarmRelay |-> FALSE,
             faultIndMode |-> "Off", readyIndMode |-> "SolidGreen"]
      [] s = "Fault" ->
            [bypassRelay |-> TRUE, alarmRelay |-> TRUE,
             faultIndMode |-> "FlashFastRed", readyIndMode |-> "Off"]

buildOutput_bypassInSettle(st, s, dacTarget) ==
    LET r == relaysAndIndicators(s)
    IN  [state |-> s,
         dacTarget |-> applyBackoff(dacTarget, st.backoffDacOffset),
         bypassRelay |-> r.bypassRelay \/ s = "Settle",
         alarmRelay |-> r.alarmRelay,
         faultIndMode |-> r.faultIndMode,
         readyIndMode |-> r.readyIndMode,
         statusText |-> statusTextForState(s, st.faultReason),
         backoffCount |-> st.backoffCount]

\* buildOutput reads the statics as they are when it is called, that is
\* after enterState / enterFault have run: st is that record
buildOutput(st, s, dacTarget) ==
    LET r == relaysAndIndicators(s)
    IN  [state |-> s,
         dacTarget |-> applyBackoff(dacTarget, st.backoffDacOffset),
         bypassRelay |-> r.bypassRelay,
         alarmRelay |-> r.alarmRelay,
         faultIndMode |-> r.faultIndMode,
         readyIndMode |-> r.readyIndMode,
         statusText |-> statusTextForState(s, st.faultReason),
         backoffCount |-> st.backoffCount]

\* what a call returns: the statics it leaves and the Output it hands back
Ret(st, o) == [st |-> st, out |-> o]

(***************************************************************************)
(* update(): the global fault checks                                       *)
(***************************************************************************)
globalChecksApply_always(st) == TRUE

\* the checks fire from any non-Fault state
globalChecksApply(st) == st.currentState # "Fault"

rmsOverVoltage_inclusive(rmsVoltage) == rmsVoltage >= RMS_MAX_VOLTAGE_VDC

rmsOverVoltage(rmsVoltage) == rmsVoltage > RMS_MAX_VOLTAGE_VDC

stallFault_anyState(st, stalled) == stalled

stallFault_coarseOnly(st, stalled) ==
    st.currentState = "CoarseCooldown" /\ stalled

stallFault(st, stalled) ==
    (st.currentState = "CoarseCooldown" \/ st.currentState = "FineCooldown")
    /\ stalled

\* ++backoffCount and the capped accumulation of the DAC reduction
countBackoff_skipsOffset(st) ==
    [st EXCEPT !.backoffCount = (st.backoffCount + 1) % TwoTo16]

countBackoff(st) ==
    LET newOffset == st.backoffDacOffset + BACKOFF_DAC_STEP
    IN  [st EXCEPT !.backoffCount = (st.backoffCount + 1) % TwoTo16,
                   !.backoffDacOffset = IF newOffset > MCP4921_MAX_VALUE
                                           THEN MCP4921_MAX_VALUE
                                           ELSE newOffset]

backoffLimitReached_late(st) == st.backoffCount > BACKOFF_MAX_COUNT

backoffLimitReached(st) == st.backoffCount >= BACKOFF_MAX_COUNT

(***************************************************************************)
(* update(): the per-state transition logic                                *)
(***************************************************************************)
\* Settle, temperature out of band: the timer is reset
settleDrifted_keepsTimer(st) == st

settleDrifted_regresses(st) ==
    [st EXCEPT !.currentState = "FineCooldown",
               !.settleTimerActive = FALSE, !.settleStartMs = 0]

settleDrifted(st) ==
    [st EXCEPT !.settleTimerActive = FALSE, !.settleStartMs = 0]

settleElapsed(st, nowMs) ==
    Sub32(nowMs, st.settleStartMs) >= SETTLE_DURATION_MS

baselineElapsed_strict(st, nowMs) ==
    Sub32(nowMs, st.currentStateEntryMs) > BASELINE_DURATION_MS

baselineElapsed(st, nowMs) ==
    Sub32(nowMs, st.currentStateEntryMs) >= BASELINE_DURATION_MS

perState(st, tempK, coolingRate, nowMs) ==
    LET elapsed == Sub32(nowMs, st.currentStateEntryMs)
        s == st.currentState
    IN
    CASE s = "Off" ->
            LET a == IF st.offStateMs = 0
                        THEN [st EXCEPT !.offStateMs = nowMs] ELSE st
            IN  Ret(a, buildOutput(a, "Off", 0))
      [] s = "Initialize" ->
            LET a == IF st.onStateMs = 0
                        THEN [st EXCEPT !.onStateMs = nowMs, !.offStateMs = 0]
                        ELSE st
            IN  IF elapsed >= INDICATOR_INIT_AMBER_MS
                   THEN LET b == enterState(a, "Idle", nowMs)
                        IN  Ret(b, buildOutput(b, "Idle", 0))
                   ELSE Ret(a, buildOutput(a, "Initialize", 0))
      [] s = "Idle" ->
            LET a == IF st.offStateMs = 0
                        THEN [st EXCEPT !.offStateMs = nowMs] ELSE st
            IN  Ret(a, buildOutput(a, "Idle", 0))
      [] s = "CoarseCooldown" ->
            LET target == cooldownDacTarget(tempK, coolingRate)
            IN  IF tempK < COARSE_FINE_THRESHOLD_K
                   THEN LET b == enterState(st, "FineCooldown", nowMs)
                        IN  Ret(b, buildOutput(b, "FineCooldown", target))
                   ELSE Ret(st, buildOutput(st, "CoarseCooldown", target))
      [] s = "FineCooldown" ->
            IF tempK > COARSE_FINE_THRESHOLD_K
               THEN LET target == cooldownDacTarget(tempK, coolingRate)
                        b == enterState(st, "CoarseCooldown", nowMs)
                    IN  Ret(b, buildOutput(b, "CoarseCooldown", target))
            ELSE IF overshot(tempK)
               THEN LET b == enterState(st, "Overshoot", nowMs)
                    IN  Ret(b, buildOutput(b, "Overshoot", 0))
            ELSE IF inBand(tempK)
               THEN LET b == enterState(st, "Settle", nowMs)
                    IN  Ret(b, buildOutput(b, "Settle", 0))
            ELSE LET target == cooldownDacTarget(tempK, coolingRate)
                 IN  Ret(st, buildOutput(st, "FineCooldown", target))
      [] s = "Overshoot" ->
            IF inBand(tempK)
               THEN LET b == enterState(st, "Settle", nowMs)
                    IN  Ret(b, buildOutput(b, "Settle", 0))
               ELSE Ret(st, buildOutput(st, "Overshoot", 0))
      [] s = "Settle" ->
            LET stable == inBand(tempK)
            IN  IF ~stable
                   THEN LET a == settleDrifted(st)
                        IN  Ret(a, buildOutput(a, "Settle", 0))
                ELSE IF ~st.settleTimerActive
                   THEN LET a == [st EXCEPT !.settleTimerActive = TRUE,
                                            !.settleStartMs = nowMs]
                        IN  Ret(a, buildOutput(a, "Settle", 0))
                ELSE IF settleElapsed(st, nowMs)
                   THEN LET b == enterState(st, "Baseline", nowMs)
                        IN  Ret(b, buildOutput(b, "Baseline", 0))
                ELSE Ret(st, buildOutput(st, "Settle", 0))
      [] s = "Baseline" ->
            IF baselineElapsed(st, nowMs)
               THEN LET b == enterState(st, "Operating", nowMs)
                    IN  Ret(b, buildOutput(b, "Operating", 0))
               ELSE Ret(st, buildOutput(st, "Baseline", 0))
      [] s = "Operating" ->
            Ret(st, buildOutput(st, "Operating", 0))
      [] s = "Fault" ->
            LET a == IF st.offStateMs = 0
                        THEN [st EXCEPT !.offStateMs = nowMs] ELSE st
            IN  Ret(a, buildOutput(a, "Fault", 0))
      [] OTHER -> Ret(st, buildOutput(st, "Fault", 0))

(***************************************************************************)
(* update(): one tick                                                      *)
(***************************************************************************)
update_staleOutput(st, tempK, coolingRate, rmsVoltage, stalled, nowMs, overstroke) ==
    IF globalChecksApply(st) /\ rmsOverVoltage(rmsVoltage)
       THEN LET f == enterFault(st, "RmsOvervoltage", nowMs)
            IN  Ret(f, buildOutput(f, st.currentState, 0))
    ELSE IF globalChecksApply(st) /\ stallFault(st, stalled)
       THEN LET f == enterFault(st, "TemperatureStall", nowMs)
            IN  Ret(f, buildOutput(f, st.currentState, 0))
    ELSE IF globalChecksApply(st) /\ overstroke /\ st.running
       THEN LET c == countBackoff(st)
            IN  IF backoffLimitReached(c)
                   THEN LET f == enterFault(c, "TooManyBackoffs", nowMs)
                        IN  Ret(f, buildOutput(f, st.currentState, 0))
                   ELSE perState(c, tempK, coolingRate, nowMs)
    ELSE perState(st, tempK, coolingRate, nowMs)

update(st, tempK, coolingRate, rmsVoltage, stalled, nowMs, overstroke) ==
    IF globalChecksApply(st) /\ rmsOverVoltage(rmsVoltage)
       THEN LET f == enterFault(st, "RmsOvervoltage", nowMs)
            IN  Ret(f, buildOutput(f, "Fault", 0))
    ELSE IF globalChecksApply(st) /\ stallFault(st, stalled)
       THEN LET f == enterFault(st, "TemperatureStall", nowMs)
            IN  Ret(f, buildOutput(f, "Fault", 0))
    ELSE IF globalChecksApply(st) /\ overstroke /\ st.running
       THEN LET c == countBackoff(st)
            IN  IF backoffLimitReached(c)
                   THEN LET f == enterFault(c, "TooManyBackoffs", nowMs)
                        IN  Ret(f, buildOutput(f, "Fault", 0))
                   ELSE perState(c, tempK, coolingRate, nowMs)
    ELSE perState(st, tempK, coolingRate, nowMs)

(***************************************************************************)
(* init(), start(), stop(), off()                                          *)
(***************************************************************************)
init(nowMs) ==
    enterState([currentState |-> "Off",
                currentStateEntryMs |-> 0,
                running |-> FALSE,
                faultReason |-> "None",
                onStateMs |-> 0,
                offStateMs |-> 0,
                settleStartMs |-> 0,
                settleTimerActive |-> FALSE,
                backoffCount |-> 0,
                backoffDacOffset |-> 0], "Off", nowMs)

\* the resumption state start() selects from the cold-stage temperature
resumeState_fullCooldown(tempK) == "CoarseCooldown"

resumeState(tempK) ==
    IF tempK >= COARSE_FINE_THRESHOLD_K THEN "CoarseCooldown"
    ELSE IF overshot(tempK) THEN "Overshoot"
    ELSE IF inBand(tempK) THEN "Settle"
    ELSE "FineCooldown"

start_restarts(st, nowMs, tempK) ==
    enterState([st EXCEPT !.running = TRUE,
                          !.onStateMs = nowMs,
                          !.offStateMs = 0,
                          !.faultReason = "None",
                          !.backoffCount = 0,
                          !.backoffDacOffset = 0],
               resumeState(tempK), nowMs)

start(st, nowMs, tempK) ==
    IF st.running = TRUE THEN st
    ELSE enterState([st EXCEPT !.running = TRUE,
                               !.onStateMs = nowMs,
                               !.offStateMs = 0,
                               !.faultReason = "None",
                               !.backoffCount = 0,
                               !.backoffDacOffset = 0],
                    resumeState(tempK), nowMs)

stop_clearsBackoff(st, nowMs) ==
    IF st.running = FALSE THEN st
    ELSE enterState([st EXCEPT !.running = FALSE,
                               !.offStateMs = IF st.offStateMs = 0 THEN nowMs
                                              ELSE st.offStateMs,
                               !.faultReason = "None",
                               !.backoffCount = 0,
                               !.backoffDacOffset = 0], "Idle", nowMs)

stop_unguarded(st, nowMs) ==
    enterState([st EXCEPT !.running = FALSE,
                          !.offStateMs = IF st.offStateMs = 0 THEN nowMs
                                         ELSE st.offStateMs,
                          !.faultReason = "None"], "Idle", nowMs)

stop(st, nowMs) ==
    IF st.running = FALSE THEN st
    ELSE enterState([st EXCEPT !.running = FALSE,
                               !.offStateMs = IF st.offStateMs = 0 THEN nowMs
                                              ELSE st.offStateMs,
                               !.faultReason = "None"], "Idle", nowMs)

off_keepsRunning(st, nowMs) ==
    IF st.currentState = "Off" THEN st
    ELSE enterState([st EXCEPT !.offStateMs = IF st.offStateMs = 0 THEN nowMs
                                              ELSE st.offStateMs,
                               !.faultReason = "None"], "Off", nowMs)

off_guardedByRunning(st, nowMs) ==
    IF st.running = FALSE THEN st
    ELSE enterState([st EXCEPT !.running = FALSE,
                               !.offStateMs = IF st.offStateMs = 0 THEN nowMs
                                              ELSE st.offStateMs,
                               !.faultReason = "None"], "Off", nowMs)

off(st, nowMs) ==
    IF st.currentState = "Off" THEN st
    ELSE enterState([st EXCEPT !.running = FALSE,
                               !.offStateMs = IF st.offStateMs = 0 THEN nowMs
                                              ELSE st.offStateMs,
                               !.faultReason = "None"], "Off", nowMs)

(***************************************************************************)
(* The durations read back by the telemetry; millis is the value millis()  *)
(* returns at the call                                                     *)
(***************************************************************************)
getTimeInState(st, millis) == Sub32(millis, st.currentStateEntryMs)

getOnStateDuration(st, millis) ==
    IF st.onStateMs = 0 THEN 0
    ELSE IF st.offStateMs # 0 THEN Sub32(st.offStateMs, st.onStateMs)
    ELSE Sub32(millis, st.onStateMs)

(***************************************************************************)
(* serial_commands.cpp: one command line.  A line is a sequence of         *)
(* characters; a response is the tag it starts with and the rest of it.    *)
(* start() is called with the cold-stage temperature tempK.                *)
(***************************************************************************)
Blank == {" ", "\t"}

Response(tag, text) == [tag |-> tag, text |-> text]

Handled(st, telemetryOn, out) ==
    [st |-> st, telemetryOn |-> telemetryOn, out |-> out]

handleStart_unguarded(st, telemetryOn, millis, tempK) ==
    Handled(start(st, millis, tempK), telemetryOn,
            <<Response("OK", "Process started")>>)

handleStart(st, telemetryOn, millis, tempK) ==
    IF st.running
       THEN Handled(st, telemetryOn, <<Response("ERR", "Already running")>>)
    ELSE IF st.currentState # "Idle" /\ st.currentState # "Off"
       THEN Handled(st, telemetryOn,
                    <<Response("ERR", "Cannot start: not in Idle or Off state")>>)
    ELSE Handled(start(st, millis, tempK), telemetryOn,
                 <<Response("OK", "Process started")>>)

handleStop(st, telemetryOn, millis, tempK) ==
    IF ~st.running
       THEN Handled(st, telemetryOn, <<Response("ERR", "Not currently running")>>)
       ELSE Handled(stop(st, millis), telemetryOn,
                    <<Response("OK", "Process stopped")>>)

handleOff(st, telemetryOn, millis, tempK) ==
    IF st.currentState = "Off"
       THEN Handled(st, telemetryOn, <<Response("ERR", "System is already off")>>)
       ELSE Handled(off(st, millis), telemetryOn,
                    <<Response("OK", "System turned off")>>)

handleStatus(st, telemetryOn, millis, tempK) ==
    Handled(st, telemetryOn,
            <<Response("OK", <<st.currentState, "running", st.running>>)>>)

handleTelemetryOff(st, telemetryOn, millis, tempK) ==
    Handled(st, FALSE, <<Response("OK", "Telemetry disabled")>>)

handleTelemetryOn(st, telemetryOn, millis, tempK) ==
    Handled(st, TRUE, <<Response("OK", "Telemetry enabled")>>)

handleBoard(st, telemetryOn, millis, tempK) ==
    Handled(st, telemetryOn, <<Response("OK", "Board info:")>>)

handleHelp(st, telemetryOn, millis, tempK) ==
    Handled(st, telemetryOn, <<Response("OK", "Available commands:")>>)

\* the names of the dispatch table, in its order
kCommands ==
    << <<"s", "t", "a", "r", "t">>,
       <<"s", "t", "o", "p">>,
       <<"o", "f", "f">>,
       <<"s", "t", "a", "t", "u", "s">>,
       <<"b", "o", "a", "r", "d">>,
       <<"h", "e", "l", "p">>,
       <<"t", "e", "l", "e", "m", "e", "t", "r", "y", " ", "o", "f", "f">>,
       <<"t", "e", "l", "e", "m", "e", "t", "r", "y", " ", "o", "n">> >>

\* kCommands[k].handler(out)
handler(k, st, telemetryOn, millis, tempK) ==
    CASE k = 1 -> handleStart(st, telemetryOn, millis, tempK)
      [] k = 2 -> handleStop(st, telemetryOn, millis, tempK)
      [] k = 3 -> handleOff(st, telemetryOn, millis, tempK)
      [] k = 4 -> handleStatus(st, telemetryOn, millis, tempK)
      [] k = 5 -> handleBoard(st, telemetryOn, millis, tempK)
      [] k = 6 -> handleHelp(st, telemetryOn, millis, tempK)
      [] k = 7 -> handleTelemetryOff(st, telemetryOn, millis, tempK)
      [] k = 8 -> handleTelemetryOn(st, telemetryOn, millis, tempK)

\* while (*line == ' ' || *line == '\t') ++line
RECURSIVE skipBlank(_)
skipBlank(line) ==
    IF line # <<>> /\ Head(line) \in Blank THEN skipBlank(Tail(line)) ELSE line

\* strncmp(name, line, nameLen) == 0 and the character after it ends the word
matches(name, line) ==
    /\ Len(line) >= Len(name)
    /\ SubSeq(line, 1, Len(name)) = name
    /\ (Len(line) = Len(name) \/ line[Len(name) + 1] \in Blank)

\* the text up to the first blank
RECURSIVE firstWord(_)
firstWord(line) ==
    IF line = <<>> \/ Head(line) \in Blank THEN <<>>
    ELSE <<Head(line)>> \o firstWord(Tail(line))

processLine(st, telemetryOn, line, millis, tempK) ==
    LET l == skipBlank(line)
        hits == {k \in 1..Len(kCommands) : matches(kCommands[k], l)}
    IN  IF l = <<>> THEN Handled(st, telemetryOn, <<>>)
        ELSE IF hits # {}
           THEN handler(CHOOSE k \in hits : \A h \in hits : k <= h,
                        st, telemetryOn, millis, tempK)
        ELSE Handled(st, telemetryOn,
                     <<Response("ERR", <<"Unknown command", firstWord(l)>>)>>)

(***************************************************************************)
(* temperature.cpp: the ring buffer of (timestamp, tempK) samples.          *)
(* Temperatures are whole kelvins.                                         *)
(***************************************************************************)
TempSample(timestampMs, tempK) == [timestampMs |-> timestampMs, tempK |-> tempK]

\* the statics as the program starts: a zeroed array, sHead 0, sCount 0
temperatureStatics ==
    [sHistory |-> [k \in 0..(TEMP_HISTORY_SIZE - 1) |-> TempSample(0, 0)],
     sHead |-> 0,
     sCount |-> 0]

pushSample_countsOn(t, nowMs, tempK) ==
    [sHistory |-> [t.sHistory EXCEPT ![t.sHead] = TempSample(nowMs, tempK)],
     sHead |-> (t.sHead + 1) % TEMP_HISTORY_SIZE,
     sCount |-> (t.sCount + 1) % TwoTo8]

pushSample(t, nowMs, tempK) ==
    [sHistory |-> [t.sHistory EXCEPT ![t.sHead] = TempSample(nowMs, tempK)],
     sHead |-> (t.sHead + 1) % TEMP_HISTORY_SIZE,
     sCount |-> IF t.sCount < TEMP_HISTORY_SIZE THEN t.sCount + 1 ELSE t.sCount]

\* the array slot of logical index i (0 = oldest, sCount - 1 = newest)
sampleAt(t, i) ==
    t.sHistory[((t.sHead + TEMP_HISTORY_SIZE - t.sCount + i) % TEMP_HISTORY_SIZE)
               % TwoTo8]

\* a float quotient, kept exact as numerator and denominator
Quotient(num, den) == [num |-> num, den |-> den]

getCoolingRateKPerMin_lastTwo(t) ==
    IF t.sCount < 2 THEN Quotient(0, 1)
    ELSE LET oldest == sampleAt(t, t.sCount - 2)
             newest == sampleAt(t, t.sCount - 1)
             dtMs == Sub32(newest.timestampMs, oldest.timestampMs)
         IN  IF dtMs = 0 THEN Quotient(0, 1)
             ELSE Quotient((oldest.tempK - newest.tempK) * 60000, dtMs)

\* dTempK / (dtMs / 60000.0f), as the quotient (dTempK * 60000) / dtMs
getCoolingRateKPerMin(t) ==
    IF t.sCount < 2 THEN Quotient(0, 1)
    ELSE LET oldest == sampleAt(t, 0)
             newest == sampleAt(t, t.sCount - 1)
             dtMs == Sub32(newest.timestampMs, oldest.timestampMs)
         IN  IF dtMs = 0 THEN Quotient(0, 1)
             ELSE Quotient((oldest.tempK - newest.tempK) * 60000, dtMs)

\* isStalled() returns false in its first statement; the window search
\* after it is never executed
isStalled(t) == FALSE

(***************************************************************************)
(* rms.cpp: overstroke detection on the AC current (the ARDUINO build).    *)
(* Currents are whole milliamps; the EMA is kept in fixed point.           *)
(***************************************************************************)
rms_init ==
    [currentEmaA |-> 0,
     primeCount |-> 0,
     overstrokeFlag |-> FALSE,
     lastOverstrokeMs |-> 0]

\* currentEmaA += OVERSTROKE_EMA_ALPHA * (current - currentEmaA)
emaStep(ema, current) == ema + (OVERSTROKE_EMA_ALPHA * (current - ema)) \div 100

debounceElapsed_always(r, nowMs) == TRUE

debounceElapsed(r, nowMs) ==
    Sub32(nowMs, r.lastOverstrokeMs) >= OVERSTROKE_DEBOUNCE_MS

\* readCurrent(), given the sample the sensor returns and millis()
readCurrent(r, current, nowMs) ==
    IF r.primeCount < OVERSTROKE_PRIME_READINGS
       THEN [r EXCEPT !.currentEmaA = current,
                      !.primeCount = (r.primeCount + 1) % TwoTo8]
       ELSE LET ema == emaStep(r.currentEmaA, current)
                delta == current - ema
            IN  IF /\ ~r.overstrokeFlag
                   /\ delta > OVERSTROKE_CURRENT_THRESHOLD_A
                   /\ debounceElapsed(r, nowMs)
                   THEN [r EXCEPT !.currentEmaA = ema,
                                  !.overstrokeFlag = TRUE,
                                  !.lastOverstrokeMs = nowMs]
                   ELSE [r EXCEPT !.currentEmaA = ema]

hasOverstroke(r) == r.overstrokeFlag

clearOverstroke(r) == [r EXCEPT !.overstrokeFlag = FALSE]

(***************************************************************************)
(* dac.cpp: the rate-limited DAC output; the state is currentDacVal        *)
(***************************************************************************)
\* writeSpi: the value currentDacVal holds after the write
writeSpi(currentDacVal, dacVal) ==
    LET v == IF dacVal > MCP4921_MAX_VALUE THEN MCP4921_MAX_VALUE ELSE dacVal
    IN  IF currentDacVal = v THEN currentDacVal ELSE v

\* dac::init() on the zero-initialised static
dac_init == writeSpi(0, 0)

rampToward_fullStep(currentDacVal, target) ==
    LET t == IF target > MCP4921_MAX_VALUE THEN MCP4921_MAX_VALUE ELSE target
        next == IF currentDacVal < t
                   THEN (currentDacVal + DAC_MAX_STEP_PER_INTERVAL) % TwoTo16
                ELSE IF currentDacVal > t
                   THEN (currentDacVal - DAC_MAX_STEP_PER_INTERVAL) % TwoTo16
                ELSE currentDacVal
    IN  writeSpi(currentDacVal, next)

rampToward(currentDacVal, target) ==
    LET t == IF target > MCP4921_MAX_VALUE THEN MCP4921_MAX_VALUE ELSE target
        next == IF currentDacVal < t
                   THEN LET step == (t - currentDacVal) % TwoTo16
                        IN  (currentDacVal
                               + (IF step > DAC_MAX_STEP_PER_INTERVAL
                                     THEN DAC_MAX_STEP_PER_INTERVAL ELSE step))
                            % TwoTo16
                ELSE IF currentDacVal > t
                   THEN LET step == (currentDacVal - t) % TwoTo16
                        IN  (currentDacVal
                               - (IF step > DAC_MAX_STEP_PER_INTERVAL
                                     THEN DAC_MAX_STEP_PER_INTERVAL ELSE step))
                            % TwoTo16
                ELSE currentDacVal
    IN  writeSpi(currentDacVal, next)

(***************************************************************************)
(* SmoothADC: the averaging ADC reader main.cpp keeps as dacVoltageAdc.    *)
(* The object is the record of its working fields; tick is the value       *)
(* get_tick() returns and sample the value analogRead() returns.           *)
(***************************************************************************)
\* the zero-initialised static after init(Pin, TB_MS, Period) and enable()
SmoothADC_init(Period) ==
    [ADCTab |-> <<0, 0, 0, 0>>,
     Average |-> 0,
     NumAcq |-> 0,
     MemTimeAcq |-> 0,
     AcqPeriod |-> Period,
     En |-> TRUE]

setPeriod(a, Period) == [a EXCEPT !.AcqPeriod = Period]

TestAcqRate(a, tick) == Sub32(tick, a.MemTimeAcq) >= a.AcqPeriod

\* NumAcq & DEF_MSQ_NumAcq: the seven low bits
writeIndex(a) == a.NumAcq % (DEF_MSQ_NumAcq + 1)

\* ADCTab[index] = sample.  ADCTab has DEF_NB_ACQ elements; a store at
\* index DEF_NB_ACQ is outside the array, at the address of the field that
\* follows it, Average: overrun is what such a store does, either it lands
\* on Average or it is lost
storeSample(a, index, sample, overrun) ==
    IF index < DEF_NB_ACQ THEN [a EXCEPT !.ADCTab[index + 1] = sample]
    ELSE IF index = DEF_NB_ACQ /\ overrun = "Average"
       THEN [a EXCEPT !.Average = sample]
    ELSE a

\* if ((NumAcq++ & DEF_MSQ_NumAcq) >= DEF_NB_ACQ) NumAcq = DEF_BIT_ACQ
countAcq(a) ==
    IF writeIndex(a) >= DEF_NB_ACQ
       THEN [a EXCEPT !.NumAcq = DEF_BIT_ACQ]
       ELSE [a EXCEPT !.NumAcq = (a.NumAcq + 1) % TwoTo8]

acquires(a, tick) == a.En /\ TestAcqRate(a, tick)

serviceADCPin(a, tick, sample, overrun) ==
    IF acquires(a, tick)
       THEN countAcq(storeSample([a EXCEPT !.MemTimeAcq = tick],
                                 writeIndex(a), sample, overrun))
       ELSE a

\* one pass of a loop of Filtering: the larger (smaller) value goes to index k
swapUp(temp, k, c) ==
    IF temp[k] < temp[c]
       THEN [temp EXCEPT ![k] = temp[c], ![c] = temp[k]] ELSE temp

swapDown(temp, k, c) ==
    IF temp[k] > temp[c]
       THEN [temp EXCEPT ![k] = temp[c], ![c] = temp[k]] ELSE temp

Filtering(a) ==
    LET t1 == swapUp(swapUp(swapUp(a.ADCTab, 1, 2), 1, 3), 1, 4)
        t2 == swapDown(swapDown(t1, 4, 2), 4, 3)
    IN  [a EXCEPT !.Average = ((t2[2] + t2[3]) \div 2) % TwoTo16]

getADCVal(a) == IF a.NumAcq >= DEF_BIT_ACQ THEN Filtering(a) ELSE a

(***************************************************************************)
(* main.cpp: the serial commands and the actuator drive of loop()          *)
(***************************************************************************)
\* processSerialCommands(nowMs) for one received line; start() is called
\* with the cold-stage temperature tempK, the reading of the pass
processSerialCommands(st, cmd, nowMs, tempK) ==
    CASE cmd = "start" ->
            IF st.running THEN st
            ELSE IF st.currentState # "Idle" /\ st.currentState # "Off" THEN st
            ELSE start(st, nowMs, tempK)
      [] cmd = "stop" ->
            IF st.currentState = "Idle" /\ ~st.running THEN st
            ELSE stop(st, nowMs)
      [] cmd = "off" ->
            IF st.currentState = "Off" THEN st
            ELSE off(st, nowMs)
      [] OTHER -> st

\* the control tick is due
tickDue(nowMs, previousLoopMs) ==
    ~(Sub32(nowMs, previousLoopMs) < LOOP_INTERVAL_MS)

driveDac_unramped(currentDacVal, out) == writeSpi(currentDacVal, out.dacTarget)

\* dac::rampToward(out.dacTarget)
driveDac(currentDacVal, out) == rampToward(currentDacVal, out.dacTarget)

(***************************************************************************)
(* The state machine                                                       *)
(***************************************************************************)
smInit ==
    /\ sm = init(0)
    /\ now = 0
    /\ strokes = 0
    /\ armedAt = 0
    /\ drifted = FALSE
    /\ strayed = FALSE

temperatureInit ==
    /\ temperature = temperatureStatics
    /\ pushed = <<>>

rmsInit ==
    /\ rms = rms_init
    /\ readings = [n |-> 0, detectedAt |-> <<>>]

dacInit ==
    /\ dac = dac_init
    /\ ramp = [target |-> 0, from |-> 0, calls |-> 0]

convInit ==
    conv = [tempK |-> AMBIENT_START_K, ambientK |-> AMBIENT_START_K,
            setpointK |-> SETPOINT_K, maxDac |-> MCP4921_MAX_VALUE, result |-> 0]

loopInit ==
    /\ sPreviousLoopMs = 0
    /\ coast = [active |-> FALSE, from |-> 0, calls |-> 0]

adcInit ==
    /\ adc = SmoothADC_init(DAC_VOLTAGE_ADC_SMOOTH_PERIOD_MS)
    /\ acq = [n |-> 0, index |-> 0]

Init ==
    /\ smInit
    /\ temperatureInit
    /\ rmsInit
    /\ dacInit
    /\ convInit
    /\ loopInit
    /\ adcInit

\* millis() advances between two calls
Tick ==
    \E d \in Deltas :
        /\ now + d <= MaxTime
        /\ now' = now + d
        /\ UNCHANGED <<sm, strokes, armedAt, drifted, strayed>>
        /\ UNCHANGED periph

\* loop(): state_machine::update(tempK, coolingRate, rmsV, stalled, nowMs, overstroke)
Update ==
    \E tempK \in Temps, coolingRate \in Rates, rmsVoltage \in Voltages,
       stalled \in BOOLEAN, overstroke \in BOOLEAN :
        LET r == update(sm, tempK, coolingRate, rmsVoltage, stalled, now, overstroke)
            arms == ~sm.settleTimerActive /\ r.st.settleTimerActive
            outOfBand == tempK < 76 \/ tempK > 80
        IN  /\ sm' = r.st
            /\ strokes' = IF /\ overstroke
                             /\ sm.running
                             /\ rmsVoltage <= 120
                             /\ ~(stalled /\ sm.currentState \in CooldownStates)
                             THEN strokes + 1
                             ELSE strokes
            /\ armedAt' = IF ~r.st.settleTimerActive THEN 0
                          ELSE IF arms THEN now
                          ELSE armedAt
            /\ drifted' = IF ~r.st.settleTimerActive \/ arms THEN FALSE
                          ELSE drifted \/ outOfBand
            /\ strayed' = IF r.st.currentState # "Settle" THEN FALSE
                          ELSE IF sm.currentState # "Settle" THEN FALSE
                          ELSE strayed \/ outOfBand
            /\ UNCHANGED now
            /\ UNCHANGED periph

\* serial command "start": state_machine::start(nowMs, tempK)
Start ==
    \E tempK \in Temps :
        /\ sm' = start(sm, now, tempK)
        /\ strokes' = IF sm.running THEN strokes ELSE 0
        /\ armedAt' = IF sm'.settleTimerActive THEN armedAt ELSE 0
        /\ drifted' = IF sm'.settleTimerActive THEN drifted ELSE FALSE
        /\ strayed' = IF sm.running THEN strayed ELSE FALSE
        /\ UNCHANGED now
        /\ UNCHANGED periph

\* serial command "stop": state_machine::stop(nowMs)
Stop ==
    /\ sm' = stop(sm, now)
    /\ armedAt' = IF sm'.settleTimerActive THEN armedAt ELSE 0
    /\ drifted' = IF sm'.settleTimerActive THEN drifted ELSE FALSE
    /\ strayed' = IF sm'.currentState = "Settle" THEN strayed ELSE FALSE
    /\ UNCHANGED <<now, strokes>>
    /\ UNCHANGED periph

\* serial command "off": state_machine::off(nowMs)
Off ==
    /\ sm' = off(sm, now)
    /\ armedAt' = IF sm'.settleTimerActive THEN armedAt ELSE 0
    /\ drifted' = IF sm'.settleTimerActive THEN drifted ELSE FALSE
    /\ strayed' = IF sm'.currentState = "Settle" THEN strayed ELSE FALSE
    /\ UNCHANGED <<now, strokes>>
    /\ UNCHANGED periph

Next == Tick \/ Update \/ Start \/ Stop \/ Off

Spec == Init /\ [][Next]_vars

(***************************************************************************)
(* The temperature history on its own: loop() calls temperature::read      *)
(***************************************************************************)
\* the steps between consecutive samples of a sequence, and how often two
\* consecutive steps differ
SampleStep(seq, k) ==
    <<seq[k + 1].timestampMs - seq[k].timestampMs, seq[k].tempK - seq[k + 1].tempK>>

ProfileChanges(seq) ==
    Cardinality({k \in 1..(Len(seq) - 2) : SampleStep(seq, k) # SampleStep(seq, k + 1)})

\* temperature::read(nowMs): pushSample(nowMs, tempK) with the new reading
ReadTemperature ==
    /\ Len(pushed) < MaxPushes
    /\ \E p \in Profiles :
          LET s == IF pushed = <<>>
                      THEN TempSample(LOOP_INTERVAL_MS, FirstSampleK)
                      ELSE TempSample(pushed[Len(pushed)].timestampMs + p[1],
                                      pushed[Len(pushed)].tempK - p[2])
          IN  /\ ProfileChanges(Append(pushed, s)) <= MaxProfileChanges
              /\ temperature' = pushSample(temperature, s.timestampMs, s.tempK)
              /\ pushed' = Append(pushed, s)
    /\ UNCHANGED <<smVars, rms, readings, dac, ramp, conv>>
    /\ UNCHANGED mainVars

NextTemperature == ReadTemperature

SpecTemperature == Init /\ [][NextTemperature]_vars

(***************************************************************************)
(* The overstroke detector on its own: readCurrent() and clearOverstroke() *)
(***************************************************************************)
\* rms::readCurrent() after millis() has advanced
ReadCurrent ==
    /\ readings.n < MaxReadings
    /\ \E d \in RmsDeltas, current \in Currents :
          LET r == readCurrent(rms, current, now + d)
              detects == r.overstrokeFlag /\ ~rms.overstrokeFlag
          IN  /\ now' = now + d
              /\ rms' = r
              /\ readings' = [n |-> readings.n + 1,
                              detectedAt |-> IF detects
                                                THEN Append(readings.detectedAt, now + d)
                                                ELSE readings.detectedAt]
    /\ UNCHANGED <<sm, strokes, armedAt, drifted, strayed>>
    /\ UNCHANGED <<temperature, pushed, dac, ramp, conv>>
    /\ UNCHANGED mainVars

\* rms::clearOverstroke(), called by the consumer of hasOverstroke()
ClearOverstroke ==
    /\ hasOverstroke(rms)
    /\ rms' = clearOverstroke(rms)
    /\ UNCHANGED <<smVars, readings>>
    /\ UNCHANGED <<temperature, pushed, dac, ramp, conv>>
    /\ UNCHANGED mainVars

NextRms == ReadCurrent \/ ClearOverstroke

SpecRms == Init /\ [][NextRms]_vars

(***************************************************************************)
(* The DAC output on its own: loop() calls dac::rampToward(out.dacTarget)  *)
(***************************************************************************)
\* the target as rampToward and writeSpi clamp it
ClampToFullScale(v) == IF v > MCP4921_MAX_VALUE THEN MCP4921_MAX_VALUE ELSE v

\* one more dac::rampToward call with the target of the ramp in progress
RampToward ==
    /\ ramp.calls < MaxRampCalls
    /\ dac' = rampToward(dac, ramp.target)
    /\ ramp' = [ramp EXCEPT !.calls = ramp.calls + 1]
    /\ UNCHANGED <<smVars, temperature, pushed, rms, readings, conv>>
    /\ UNCHANGED mainVars

\* the state machine emits another target once the output has settled
Retarget ==
    /\ dac = ClampToFullScale(ramp.target)
    /\ \E target \in DacTargets :
          ramp' = [target |-> target, from |-> dac, calls |-> 0]
    /\ UNCHANGED <<smVars, temperature, pushed, rms, readings, dac, conv>>
    /\ UNCHANGED mainVars

NextDac == RampToward \/ Retarget

SpecDac == Init /\ [][NextDac]_vars

(***************************************************************************)
(* tempKToDacValue on its own: calls with arguments from ConvParams and    *)
(* ConvTemps                                                               *)
(***************************************************************************)
Convert ==
    /\ \E p \in ConvParams, tempK \in ConvTemps :
          conv' = [tempK |-> tempK, ambientK |-> p[1], setpointK |-> p[2],
                   maxDac |-> p[3],
                   result |-> tempKToDacValue(tempK, p[1], p[2], p[3])]
    /\ UNCHANGED <<smVars, temperature, pushed, rms, readings, dac, ramp>>
    /\ UNCHANGED mainVars

NextConv == Convert

SpecConv == Init /\ [][NextConv]_vars

(***************************************************************************)
(* The ADC reader on its own                                               *)
(***************************************************************************)
\* loop(): dacVoltageAdc.serviceADCPin()
ServiceADCPin ==
    \E d \in AdcDeltas, sample \in AdcSamples, overrun \in {"Average", "lost"} :
        /\ acq.n < MaxAcq
        /\ now + d <= MaxAcq * DAC_VOLTAGE_ADC_SMOOTH_PERIOD_MS
        /\ now' = now + d
        /\ adc' = serviceADCPin(adc, now + d, sample, overrun)
        /\ acq' = IF acquires(adc, now + d)
                     THEN [n |-> acq.n + 1, index |-> writeIndex(adc)]
                     ELSE acq
        /\ UNCHANGED <<sm, strokes, armedAt, drifted, strayed>>
        /\ UNCHANGED <<temperature, pushed, rms, readings, dac, ramp, conv>>
        /\ UNCHANGED <<sPreviousLoopMs, coast>>

\* setup(): dacVoltageAdc.setPeriod(0) before the priming reads and
\* setPeriod(DAC_VOLTAGE_ADC_SMOOTH_PERIOD_MS) after them
SetPeriod ==
    \E Period \in AdcPeriods :
        /\ Period # adc.AcqPeriod
        /\ adc' = setPeriod(adc, Period)
        /\ UNCHANGED <<smVars, acq>>
        /\ UNCHANGED <<temperature, pushed, rms, readings, dac, ramp, conv>>
        /\ UNCHANGED <<sPreviousLoopMs, coast>>

\* getADCVal(): the average is recomputed once the table is full
GetADCVal ==
    /\ adc' = getADCVal(adc)
    /\ adc' # adc
    /\ UNCHANGED <<smVars, acq>>
    /\ UNCHANGED <<temperature, pushed, rms, readings, dac, ramp, conv>>
    /\ UNCHANGED <<sPreviousLoopMs, coast>>

NextAdc == ServiceADCPin \/ SetPeriod \/ GetADCVal

SpecAdc == Init /\ [][NextAdc]_vars

(***************************************************************************)
(* The control loop: one pass of loop().  The sensor reads of a pass are   *)
(* the inputs of its update() call; temperature::isStalled() is the        *)
(* stalled argument and no overstroke argument is passed.  The ADC service *)
(* of the pass acts on dacVoltageAdc only and is the action ServiceADCPin  *)
(* above.                                                                  *)
(***************************************************************************)
LoopInputs == [tempK : LoopTemps, coolingRate : {0}, rmsVoltage : Voltages,
               stalled : {isStalled(temperature)}, overstroke : {FALSE}]

\* the history of the DAC output while the target is 0
coasting(c, zeroTarget, dacBefore) ==
    IF ~zeroTarget THEN [active |-> FALSE, from |-> 0, calls |-> 0]
    ELSE IF c.active THEN [c EXCEPT !.calls = c.calls + 1]
    ELSE [active |-> TRUE, from |-> dacBefore, calls |-> 1]

Loop ==
    \E d \in LoopDeltas, cmd \in Commands, i \in LoopInputs :
        LET nowMs == now + d
            commanded == processSerialCommands(sm, cmd, nowMs, i.tempK)
            r == update(commanded, i.tempK, i.coolingRate, i.rmsVoltage,
                        i.stalled, nowMs, i.overstroke)
        IN  /\ nowMs <= MaxLoopTime
            /\ now' = nowMs
            /\ IF tickDue(nowMs, sPreviousLoopMs)
                  THEN /\ sPreviousLoopMs' = nowMs
                       /\ sm' = r.st
                       /\ dac' = driveDac(dac, r.out)
                       /\ coast' = coasting(coast,
                                            r.st.currentState \notin CooldownStates,
                                            dac)
                  ELSE /\ sm' = commanded
                       /\ UNCHANGED <<sPreviousLoopMs, dac, coast>>
            /\ UNCHANGED <<strokes, armedAt, drifted, strayed>>
            /\ UNCHANGED <<temperature, pushed, rms, readings, ramp, conv, adc, acq>>

NextLoop == Loop

SpecLoop == Init /\ [][NextLoop]_vars

\* every stored timestamp is a past value of the clock
TimestampsInPast ==
    /\ sm.currentStateEntryMs <= now
    /\ sm.settleStartMs <= now
    /\ sm.onStateMs <= now
    /\ sm.offStateMs <= now

TypeOK ==
    /\ sm.currentState \in States
    /\ sm.faultReason \in FaultReasons
    /\ sm.running \in BOOLEAN
    /\ sm.backoffCount \in 0..BACKOFF_MAX_COUNT
    /\ sm.backoffDacOffset \in 0..MCP4921_MAX_VALUE
    /\ now \in 0..MaxTime
    /\ strayed \in BOOLEAN

(***************************************************************************)
(* The arguments of one update() call, and the call made in the current    *)
(* state at the current time                                               *)
(***************************************************************************)
Inputs == [tempK : Temps, coolingRate : Rates, rmsVoltage : Voltages,
           stalled : BOOLEAN, overstroke : BOOLEAN]

tick(i) ==
    update(sm, i.tempK, i.coolingRate, i.rmsVoltage, i.stalled, now, i.overstroke)

RunningStates == {"CoarseCooldown", "FineCooldown", "Overshoot", "Settle",
                  "Baseline", "Operating"}

\* the Output of a faulted tick: target 0, alarm on, relay in bypass
SafeOutput(o) ==
    /\ o.state = "Fault"
    /\ o.dacTarget = 0
    /\ o.alarmRelay = TRUE
    /\ o.bypassRelay = TRUE

(***************************************************************************)
(* C1..C10                                                                 *)
(***************************************************************************)

\* C1: from every non-Fault state, an update() tick whose line voltage is
\* strictly above RMS_MAX_VOLTAGE_VDC enters Fault with reason
\* RmsOvervoltage, clears the running flag and returns dacTarget 0, alarm
\* relay on and bypass relay on, whatever the other inputs are.
C1_OverVoltageFaults ==
    \A i \in Inputs :
        (sm.currentState # "Fault" /\ i.rmsVoltage > 120) =>
            LET r == tick(i)
            IN  /\ r.st.currentState = "Fault"
                /\ r.st.faultReason = "RmsOvervoltage"
                /\ r.st.running = FALSE
                /\ SafeOutput(r.out)

\* an over-voltage fault has been taken from a run that had already backed off
C1_Witness ==
    /\ sm.currentState = "Fault"
    /\ sm.faultReason = "RmsOvervoltage"
    /\ sm.running = FALSE
    /\ sm.backoffCount = 2

\* C2: Fault is latched under update(): in Fault, a tick with any inputs
\* leaves the state and the fault reason as they are and returns state
\* Fault, dacTarget 0, alarm relay on, bypass relay on.
C2_FaultLatched ==
    \A i \in Inputs :
        sm.currentState = "Fault" =>
            LET r == tick(i)
            IN  /\ r.st.currentState = "Fault"
                /\ r.st.faultReason = sm.faultReason
                /\ r.st.running = FALSE
                /\ SafeOutput(r.out)

\* a tick has run in Fault after the tick that faulted: only update() in
\* Fault records an off time later than the fault's entry time
C2_Witness ==
    /\ sm.currentState = "Fault"
    /\ sm.faultReason = "TemperatureStall"
    /\ sm.offStateMs > sm.currentStateEntryMs

\* C3 (as claimed): stop() called in Fault clears the fault reason and moves
\* the controller to Idle.
C3_StopLeavesFault ==
    sm.currentState = "Fault" =>
        /\ stop(sm, now).currentState = "Idle"
        /\ stop(sm, now).faultReason = "None"

\* C4 (as claimed): start() called in Fault has no effect: the state stays
\* Fault, the fault reason and the backoff bookkeeping are unchanged.
C4_StartIgnoredInFault ==
    \A tempK \in Temps :
        sm.currentState = "Fault" =>
            LET s == start(sm, now, tempK)
            IN  /\ s.currentState = "Fault"
                /\ s.faultReason = sm.faultReason
                /\ s.backoffCount = sm.backoffCount
                /\ s.backoffDacOffset = sm.backoffDacOffset

\* a fault condition of the global guard holds for this tick
FaultCondition(i) ==
    /\ sm.currentState # "Fault"
    /\ \/ i.rmsVoltage > 120
       \/ i.stalled /\ sm.currentState \in CooldownStates
       \/ i.overstroke /\ sm.running /\ strokes + 1 = 10

\* an exit condition of the per-state logic holds for this tick
ExitCondition(i) ==
    \/ sm.currentState = "CoarseCooldown" /\ i.tempK < 85
    \/ sm.currentState = "FineCooldown" /\ (i.tempK > 85 \/ i.tempK <= 80)
    \/ sm.currentState = "Overshoot" /\ i.tempK >= 76 /\ i.tempK <= 80
    \/ /\ sm.currentState = "Settle"
       /\ i.tempK >= 76 /\ i.tempK <= 80
       /\ sm.settleTimerActive
       /\ now - sm.settleStartMs >= 60000
    \/ sm.currentState = "Baseline" /\ now - sm.currentStateEntryMs >= 300000

\* C5: the global guard wins over the per-state logic: a tick on which a
\* fault condition holds ends in Fault, also when a per-state exit condition
\* holds on the same tick.
C5_GuardWins ==
    \A i \in Inputs :
        FaultCondition(i) =>
            /\ tick(i).st.currentState = "Fault"
            /\ tick(i).out.state = "Fault"

\* every kind of fault condition meets an exit condition in some tick from
\* this state: Settle with the dwell elapsed and nine backoffs counted
C5_Witness ==
    /\ sm.currentState = "Settle"
    /\ strokes = 9
    /\ \E i \in Inputs :
          /\ ExitCondition(i) /\ i.overstroke /\ i.rmsVoltage <= 120
          /\ tick(i).st.currentState = "Fault"
    /\ \E i \in Inputs :
          /\ ExitCondition(i) /\ ~i.overstroke /\ i.rmsVoltage > 120
          /\ tick(i).st.currentState = "Fault"

\* C6: with the voltage in range, a true stall flag faults the controller
\* (TemperatureStall) exactly in CoarseCooldown and FineCooldown; in every
\* other state the tick is the tick the same inputs give with the flag
\* false, and its Output raises the alarm only if that one does.
C6_StallOnlyInCooldown ==
    \A i \in Inputs :
        (i.stalled /\ i.rmsVoltage <= 120) =>
            LET r == tick(i)
                q == tick([i EXCEPT !.stalled = FALSE])
            IN  /\ sm.currentState # "Fault" =>
                       ((r.st.currentState = "Fault"
                            /\ r.st.faultReason = "TemperatureStall")
                        <=> sm.currentState \in CooldownStates)
                /\ sm.currentState \in CooldownStates => r.out.alarmRelay
                /\ sm.currentState \notin CooldownStates => r = q
                /\ (sm.currentState \in {"Off", "Idle"}) =>
                       /\ r.st.currentState = sm.currentState
                       /\ ~r.out.alarmRelay

\* a stall fault has been taken, in a state the clock has moved on from
C6_Witness ==
    /\ sm.currentState = "Fault"
    /\ sm.faultReason = "TemperatureStall"
    /\ sm.backoffCount = 1
    /\ now > sm.currentStateEntryMs

\* C7: with the voltage in range and no stall, a tick of a running
\* controller faults exactly when it is the overstroke-flagged tick that
\* brings the count of such ticks since start() to BACKOFF_MAX_COUNT; the
\* fault is TooManyBackoffs with the alarm relay on, and no smaller count
\* faults.
C7_BackoffEscalation ==
    /\ strokes <= 10
    /\ sm.running => strokes < 10
    /\ (sm.currentState = "Fault" /\ sm.faultReason = "TooManyBackoffs") => strokes = 10
    /\ \A i \in Inputs :
          (sm.running /\ i.rmsVoltage <= 120 /\ ~i.stalled) =>
              LET r == tick(i)
              IN  /\ r.st.currentState = "Fault" <=> (i.overstroke /\ strokes + 1 = 10)
                  /\ r.st.currentState = "Fault" =>
                        /\ r.st.faultReason = "TooManyBackoffs"
                        /\ r.out.alarmRelay

\* the tenth counted overstroke has faulted the controller
C7_Witness ==
    /\ sm.currentState = "Fault"
    /\ sm.faultReason = "TooManyBackoffs"
    /\ strokes = 10
    /\ sm.running = FALSE

C10_SettleDwell ==
    /\ sm.settleTimerActive =>
          (sm.currentState = "Settle" /\ sm.settleStartMs = armedAt /\ ~drifted)
    /\ \A i \in Inputs :
          sm.currentState = "Settle" =>
              LET r == tick(i)
                  inside == 76 <= i.tempK /\ i.tempK <= 80
              IN  /\ r.st.currentState = "Baseline" =>
                        /\ inside
                        /\ sm.settleTimerActive
                        /\ ~drifted
                        /\ now - armedAt >= 60000
                  /\ ~inside =>
                        /\ ~r.st.settleTimerActive
                        /\ IF FaultCondition(i)
                              THEN r.st.currentState = "Fault"
                              ELSE r.st.currentState = "Settle"
                  /\ (inside /\ ~sm.settleTimerActive /\ ~FaultCondition(i)) =>
                        /\ r.st.currentState = "Settle"
                        /\ r.st.settleTimerActive
                        /\ r.st.settleStartMs = now

\* Baseline has been entered from a Settle whose timer was armed later than
\* Settle was entered: the dwell that counted began at the arming tick
C10_Witness ==
    /\ sm.currentState = "Settle"
    /\ sm.settleTimerActive
    /\ armedAt > sm.currentStateEntryMs
    /\ now - armedAt >= 60000
    /\ now - sm.currentStateEntryMs > 60000
    /\ \E i \in Inputs : tick(i).st.currentState = "Baseline"

(***************************************************************************)
(* C11..C20                                                                *)
(***************************************************************************)

\* the temperature of this tick is inside the tolerance band
InsideBand(i) == 76 <= i.tempK /\ i.tempK <= 80

\* C11: the settle timer is armed when Settle is entered: while the
\* temperature has been in band on every tick since Settle was entered, a
\* tick on which no fault condition holds moves Settle to Baseline exactly
\* when its nowMs is at least SETTLE_DURATION_MS after the Settle entry time.
C11_ArmedAtEntry ==
    \A i \in Inputs :
        (/\ sm.currentState = "Settle"
         /\ ~strayed
         /\ InsideBand(i)
         /\ ~FaultCondition(i)) =>
            (tick(i).st.currentState = "Baseline"
                <=> now - sm.currentStateEntryMs >= SETTLE_DURATION_MS)

\* C12: when no fault condition holds on a tick, CoarseCooldown moves to
\* FineCooldown if tempK < 85 and stays otherwise; FineCooldown moves to
\* CoarseCooldown if tempK > 85, else to Overshoot if tempK < 76, else to
\* Settle if 76 <= tempK <= 80, else stays; at exactly 85 neither state
\* changes.
C12_CooldownTransitions ==
    \A i \in Inputs :
        ~FaultCondition(i) =>
            LET next == tick(i).st.currentState
            IN  /\ sm.currentState = "CoarseCooldown" =>
                      next = (IF i.tempK < 85 THEN "FineCooldown"
                              ELSE "CoarseCooldown")
                /\ sm.currentState = "FineCooldown" =>
                      next = (IF i.tempK > 85 THEN "CoarseCooldown"
                              ELSE IF i.tempK < 76 THEN "Overshoot"
                              ELSE IF i.tempK <= 80 THEN "Settle"
                              ELSE "FineCooldown")
                /\ (sm.currentState \in CooldownStates /\ i.tempK = 85) =>
                      next = sm.currentState

\* FineCooldown entered by a tick from CoarseCooldown, from which one tick
\* at the lower band edge gives Settle, one below the band gives Overshoot
\* and one at the threshold stays
C12_Witness ==
    /\ sm.currentState = "FineCooldown"
    /\ sm.currentStateEntryMs > sm.onStateMs
    /\ \E i \in Inputs :
          ~FaultCondition(i) /\ i.tempK = 76 /\ tick(i).st.currentState = "Settle"
    /\ \E i \in Inputs :
          ~FaultCondition(i) /\ i.tempK = 75 /\ tick(i).st.currentState = "Overshoot"
    /\ \E i \in Inputs :
          ~FaultCondition(i) /\ i.tempK = 85 /\ tick(i).st.currentState = "FineCooldown"

\* C13: in Overshoot a tick gives Settle iff tempK is in [76, 80]; on every
\* other tick without a fault condition the state stays Overshoot and the
\* dacTarget is 0.
C13_OvershootExit ==
    \A i \in Inputs :
        sm.currentState = "Overshoot" =>
            LET r == tick(i)
            IN  /\ r.st.currentState = "Settle"
                      <=> (InsideBand(i) /\ ~FaultCondition(i))
                /\ (~InsideBand(i) /\ ~FaultCondition(i)) =>
                      /\ r.st.currentState = "Overshoot"
                      /\ r.out.state = "Overshoot"
                      /\ r.out.dacTarget = 0

\* Overshoot entered by a tick from FineCooldown, from which a tick above
\* the band stays in Overshoot and a tick at the upper band edge gives Settle
C13_Witness ==
    /\ sm.currentState = "Overshoot"
    /\ sm.currentStateEntryMs > sm.onStateMs
    /\ \E i \in Inputs :
          ~FaultCondition(i) /\ i.tempK = 82 /\ tick(i).st.currentState = "Overshoot"
    /\ \E i \in Inputs :
          ~FaultCondition(i) /\ i.tempK = 80 /\ tick(i).st.currentState = "Settle"

\* C14: in Baseline a tick gives Operating exactly when nowMs minus the
\* Baseline entry time is at least BASELINE_DURATION_MS, whatever the
\* temperature (a tick on which a fault condition holds gives Fault).
C14_BaselineDwell ==
    \A i \in Inputs :
        sm.currentState = "Baseline" =>
            tick(i).st.currentState =
                (IF FaultCondition(i) THEN "Fault"
                 ELSE IF now - sm.currentStateEntryMs >= 300000 THEN "Operating"
                 ELSE "Baseline")

\* Baseline exactly BASELINE_DURATION_MS after it was entered: a tick far
\* out of band gives Operating
C14_Witness ==
    /\ sm.currentState = "Baseline"
    /\ now - sm.currentStateEntryMs = 300000
    /\ \E i \in Inputs :
          i.tempK = 200 /\ tick(i).st.currentState = "Operating"

\* C15: in every Output of update() the alarm relay is on iff the state is
\* Fault, and the bypass relay is off (normal circuit) iff the state is
\* Settle, Baseline or Operating; the Output's state is the state the
\* machine is left in.
C15_RelaysByState ==
    \A i \in Inputs :
        LET r == tick(i)
        IN  /\ r.out.state = r.st.currentState
            /\ r.out.alarmRelay <=> r.out.state = "Fault"
            /\ ~r.out.bypassRelay
                  <=> r.out.state \in {"Settle", "Baseline", "Operating"}

\* Settle, from which one tick stays in Settle with the normal circuit
\* engaged and the alarm off, and another gives Fault with the alarm on and
\* the relay back in bypass
C15_Witness ==
    /\ sm.currentState = "Settle"
    /\ \E i \in Inputs :
          LET o == tick(i).out
          IN  o.state = "Settle" /\ ~o.bypassRelay /\ ~o.alarmRelay
    /\ \E i \in Inputs :
          LET o == tick(i).out
          IN  o.state = "Fault" /\ o.bypassRelay /\ o.alarmRelay

\* C16: the fault reason is not None iff the state is Fault, in every
\* reachable state; an operation that leaves Fault leaves the reason None.
C16_ReasonOnlyInFault ==
    /\ (sm.faultReason # "None") <=> (sm.currentState = "Fault")
    /\ sm.currentState = "Fault" =>
          /\ off(sm, now).faultReason = "None"
          /\ \A tempK \in Temps :
                LET s == start(sm, now, tempK)
                IN  s.currentState # "Fault" /\ s.faultReason = "None"
          /\ \A i \in Inputs :
                LET r == tick(i).st
                IN  r.currentState = "Fault" /\ r.faultReason = sm.faultReason

\* Off reached from the Fault raised by the tenth backoff event: the count
\* is still ten and the reason is None again
C16_Witness ==
    /\ sm.currentState = "Off"
    /\ sm.backoffCount = BACKOFF_MAX_COUNT
    /\ sm.faultReason = "None"

\* C17: backoffDacOffset = min(backoffCount * BACKOFF_DAC_STEP, 4095) in
\* every reachable state.
C17_OffsetFollowsCount ==
    sm.backoffDacOffset =
        (IF sm.backoffCount * BACKOFF_DAC_STEP < MCP4921_MAX_VALUE
            THEN sm.backoffCount * BACKOFF_DAC_STEP
            ELSE MCP4921_MAX_VALUE)

\* nine backoff events have been counted and the machine is still running
C17_Witness ==
    /\ sm.running
    /\ sm.backoffCount = 9
    /\ sm.backoffDacOffset = 9 * BACKOFF_DAC_STEP

\* the overstroke flag of this tick reaches the backoff bookkeeping
CountedOverstroke(i) ==
    /\ i.overstroke
    /\ sm.running
    /\ i.rmsVoltage <= 120
    /\ ~(i.stalled /\ sm.currentState \in CooldownStates)

\* the backoff bookkeeping of a record of the statics
Bookkeeping(st) == <<st.backoffCount, st.backoffDacOffset>>

\* C18: an update() tick adds one backoff event (count + 1, offset + step
\* capped at 4095) iff overstroke is flagged, running is true and neither the
\* over-voltage nor the stall guard fires, and otherwise leaves the
\* bookkeeping unchanged; start() zeroes it when it takes effect and leaves
\* it unchanged when ignored; stop() and off() leave it unchanged.
C18_BackoffFrame ==
    /\ \A i \in Inputs :
          Bookkeeping(tick(i).st) =
              (IF CountedOverstroke(i)
                  THEN <<sm.backoffCount + 1,
                         IF sm.backoffDacOffset + 200 > 4095 THEN 4095
                         ELSE sm.backoffDacOffset + 200>>
                  ELSE Bookkeeping(sm))
    /\ \A tempK \in Temps :
          Bookkeeping(start(sm, now, tempK)) =
              (IF sm.running THEN Bookkeeping(sm) ELSE <<0, 0>>)
    /\ Bookkeeping(stop(sm, now)) = Bookkeeping(sm)
    /\ Bookkeeping(off(sm, now)) = Bookkeeping(sm)
    /\ Bookkeeping(init(now)) = <<0, 0>>

\* Idle after a stop() that kept the events counted while running
C18_Witness ==
    /\ sm.currentState = "Idle"
    /\ sm.backoffCount > 0
    /\ sm.backoffDacOffset > 0
    /\ \E i \in Inputs :
          i.overstroke /\ Bookkeeping(tick(i).st) = Bookkeeping(sm)

\* C19: off() in any state other than Off gives Off with running false and
\* the fault reason None; in Off it changes nothing.
C19_OffFromAnyState ==
    LET s == off(sm, now)
    IN  IF sm.currentState = "Off"
           THEN s = sm
           ELSE /\ s.currentState = "Off"
                /\ s.running = FALSE
                /\ s.faultReason = "None"

\* Fault, not running, from which off() gives Off
C19_Witness ==
    /\ sm.currentState = "Fault"
    /\ ~sm.running
    /\ off(sm, now).currentState = "Off"
    /\ off(sm, now).faultReason = "None"

CallTimes == {now, MaxTime, MaxTime + SETTLE_DURATION_MS}

\* C21: a start() made while running is true returns with every static
\* unchanged, whatever nowMs and tempK it is given.
C21_StartIdempotent ==
    \A nowMs \in CallTimes, tempK \in Temps :
        sm.running => start(sm, nowMs, tempK) = sm

\* running in FineCooldown with backoff events counted, at a time later
\* than the state was entered: a start() for a temperature that would
\* select Settle changes nothing
C21_Witness ==
    /\ sm.running
    /\ sm.currentState = "FineCooldown"
    /\ sm.backoffCount > 0
    /\ now > sm.currentStateEntryMs
    /\ start(sm, now, 78) = sm

\* C22: an update() tick in Off or Idle with the voltage not above the
\* ceiling leaves the state and the running flag unchanged for every other
\* input; stop() and off() keep the machine in Off or Idle, and start() is
\* the operation that leaves them.
C22_StoppedStatesStay ==
    sm.currentState \in {"Off", "Idle"} =>
        /\ ~sm.running
        /\ \A i \in Inputs :
              i.rmsVoltage <= 120 =>
                  /\ tick(i).st.currentState = sm.currentState
                  /\ tick(i).st.running = sm.running
                  /\ tick(i).out.state = sm.currentState
        /\ stop(sm, now).currentState = sm.currentState
        /\ off(sm, now).currentState = "Off"
        /\ \A tempK \in Temps :
              LET s == start(sm, now, tempK)
              IN  s.running /\ s.currentState \in RunningStates

\* Idle one baseline duration after it was entered: a tick that is stalled,
\* overstroked and exactly at the voltage ceiling stays in Idle
C22_Witness ==
    /\ sm.currentState = "Idle"
    /\ now - sm.currentStateEntryMs >= BASELINE_DURATION_MS
    /\ \E i \in Inputs :
          /\ i.stalled /\ i.overstroke /\ i.rmsVoltage = 120
          /\ tick(i).st.currentState = "Idle"

\* C23: on a tick in CoarseCooldown or FineCooldown with the cooling rate
\* above MAX_COOLDOWN_RATE_K_PER_MIN, the emitted dacTarget is not greater
\* than the dacTarget emitted on the previous cooldown tick.
C23_RateHold ==
    sm.currentState \in CooldownStates =>
        \A i \in Inputs, j \in Inputs :
            LET prev == tick(i)
                this == update(prev.st, j.tempK, j.coolingRate, j.rmsVoltage,
                               j.stalled, now, j.overstroke)
            IN  (/\ prev.out.state \in CooldownStates
                 /\ this.out.state \in CooldownStates
                 /\ j.coolingRate > MAX_COOLDOWN_RATE_K_PER_MIN)
                    => this.out.dacTarget <= prev.out.dacTarget

\* the samples the history retains, oldest first, read through sampleAt
Retained == [i \in 1..temperature.sCount |-> sampleAt(temperature, i - 1)]

\* the most recent min(n, TEMP_HISTORY_SIZE) of the n samples pushed
MostRecent ==
    LET n == Len(pushed)
        keep == IF n < TEMP_HISTORY_SIZE THEN n ELSE TEMP_HISTORY_SIZE
    IN  SubSeq(pushed, n - keep + 1, n)

\* the oldest retained sample whose timestamp lies within the stall window
\* of the newest retained sample
WindowRef ==
    LET newest == MostRecent[Len(MostRecent)]
        inWindow == {k \in 1..Len(MostRecent) :
                        newest.timestampMs - MostRecent[k].timestampMs
                            <= STALL_DETECT_WINDOW_MS}
    IN  MostRecent[CHOOSE k \in inWindow : \A m \in inWindow : k <= m]

\* C24: isStalled() is true iff refTempK - newest.tempK < STALL_MIN_DROP_K,
\* where ref is the oldest retained sample within STALL_DETECT_WINDOW_MS of
\* the newest retained sample (two or more samples retained).
C24_StallWindow ==
    Len(pushed) >= 2 =>
        (isStalled(temperature)
            <=> WindowRef.tempK - MostRecent[Len(MostRecent)].tempK < STALL_MIN_DROP_K)

\* C25: the history holds the most recent min(n, TEMP_HISTORY_SIZE) samples
\* in insertion order, index 0 the oldest and count - 1 the newest; the
\* count never exceeds the capacity, the head stays inside the array, and a
\* push writes one slot only, which is the oldest sample's once the buffer
\* is full.
C25_RingBuffer ==
    /\ temperature.sHead \in 0..(TEMP_HISTORY_SIZE - 1)
    /\ temperature.sCount <= TEMP_HISTORY_SIZE
    /\ temperature.sCount = Len(MostRecent)
    /\ Retained = MostRecent
    /\ LET t == pushSample(temperature, LOOP_INTERVAL_MS, FirstSampleK + 1)
       IN  /\ \A k \in 0..(TEMP_HISTORY_SIZE - 1) :
                 k # temperature.sHead => t.sHistory[k] = temperature.sHistory[k]
           /\ temperature.sCount = TEMP_HISTORY_SIZE =>
                 /\ temperature.sHistory[temperature.sHead] = sampleAt(temperature, 0)
                 /\ \A i \in 1..(TEMP_HISTORY_SIZE - 1) :
                       sampleAt(t, i - 1) = sampleAt(temperature, i)

\* more samples pushed than the buffer holds, with the head wrapped past
\* slot 0: the oldest sample pushed is no longer retained
C25_Witness ==
    /\ Len(pushed) = TEMP_HISTORY_SIZE + 2
    /\ temperature.sHead = 2
    /\ temperature.sCount = TEMP_HISTORY_SIZE
    /\ Retained[1] = pushed[3]
    /\ Retained[1] # pushed[1]

\* C26: getCoolingRateKPerMin() is 0 with fewer than 2 samples retained or
\* with equal oldest and newest timestamps; otherwise it is (oldest.tempK -
\* newest.tempK) over the minutes between the oldest and the newest retained
\* sample, positive exactly when the newest is colder; 5 K over 10 minutes
\* gives 0.5.
C26_CoolingRate ==
    LET rate == getCoolingRateKPerMin(temperature)
        n == Len(MostRecent)
        dtMs == MostRecent[n].timestampMs - MostRecent[1].timestampMs
        dTempK == MostRecent[1].tempK - MostRecent[n].tempK
    IN  IF n < 2 THEN rate = Quotient(0, 1)
        ELSE IF dtMs = 0 THEN rate = Quotient(0, 1)
        ELSE /\ rate.den > 0
             \* rate = dTempK / (dtMs / 60000)
             /\ rate.num = dTempK * 60000
             /\ rate.den = dtMs
             /\ (rate.num > 0) <=> (MostRecent[n].tempK < MostRecent[1].tempK)
             /\ (dTempK = 5 /\ dtMs = 600000) => 2 * rate.num = rate.den

\* a full buffer that has dropped its first samples, whose oldest retained
\* sample is 5 K warmer than and 10 minutes older than the newest: rate 0.5
C26_Witness ==
    /\ Len(pushed) > TEMP_HISTORY_SIZE
    /\ MostRecent[Len(MostRecent)].timestampMs - MostRecent[1].timestampMs = 600000
    /\ MostRecent[1].tempK - MostRecent[Len(MostRecent)].tempK = 5
    /\ 2 * getCoolingRateKPerMin(temperature).num
          = getCoolingRateKPerMin(temperature).den

\* C27: readCurrent() sets the overstroke flag only on a sample after the
\* first OVERSTROKE_PRIME_READINGS samples, only while no flag is pending,
\* only when the sample exceeds the EMA baseline by more than the threshold
\* and only when at least OVERSTROKE_DEBOUNCE_MS have passed since the
\* previous detection; two detections are never less than the debounce
\* interval apart, and a set flag survives every readCurrent().
C27_OverstrokeDetection ==
    /\ \A k \in 1..(Len(readings.detectedAt) - 1) :
          readings.detectedAt[k + 1] - readings.detectedAt[k] >= OVERSTROKE_DEBOUNCE_MS
    /\ rms.overstrokeFlag => readings.detectedAt # <<>>
    /\ \A d \in RmsDeltas, current \in Currents :
          LET r == readCurrent(rms, current, now + d)
              prior == readings.detectedAt
          IN  /\ rms.overstrokeFlag => r.overstrokeFlag
              /\ (r.overstrokeFlag /\ ~rms.overstrokeFlag) =>
                    /\ readings.n >= OVERSTROKE_PRIME_READINGS
                    /\ current - r.currentEmaA > OVERSTROKE_CURRENT_THRESHOLD_A
                    /\ r.lastOverstrokeMs = now + d
                    /\ prior # <<>> =>
                          (now + d) - prior[Len(prior)] >= OVERSTROKE_DEBOUNCE_MS

\* two detections exactly one debounce interval apart, the second one
\* pending: the flag of the first was cleared in between
C27_Witness ==
    /\ Len(readings.detectedAt) = 2
    /\ readings.detectedAt[2] - readings.detectedAt[1] = OVERSTROKE_DEBOUNCE_MS
    /\ rms.overstrokeFlag
    /\ rms.lastOverstrokeMs = readings.detectedAt[2]

\* |a - b|
Distance(a, b) == IF a >= b THEN a - b ELSE b - a

\* C28: one rampToward call moves the output towards the (clamped) target
\* by min(DAC_MAX_STEP_PER_INTERVAL, |target - current|), so never by more
\* than the step and never across the target; calls repeated with a fixed
\* target reach it exactly after ceil(|target - start| / step) calls, not
\* before, and then leave the output unchanged.
C28_RampToward ==
    /\ \A target \in DacTargets :
          LET t == ClampToFullScale(target)
              next == rampToward(dac, target)
              step == IF Distance(t, dac) < DAC_MAX_STEP_PER_INTERVAL
                         THEN Distance(t, dac) ELSE DAC_MAX_STEP_PER_INTERVAL
          IN  /\ next = (IF t >= dac THEN dac + step ELSE dac - step)
              /\ Distance(next, dac) <= DAC_MAX_STEP_PER_INTERVAL
              /\ (dac <= next /\ next <= t) \/ (t <= next /\ next <= dac)
    /\ LET t == ClampToFullScale(ramp.target)
           d == Distance(t, ramp.from)
           needed == (d + DAC_MAX_STEP_PER_INTERVAL - 1) \div DAC_MAX_STEP_PER_INTERVAL
           moved == IF ramp.calls * DAC_MAX_STEP_PER_INTERVAL < d
                       THEN ramp.calls * DAC_MAX_STEP_PER_INTERVAL ELSE d
       IN  /\ dac = (IF t >= ramp.from THEN ramp.from + moved ELSE ramp.from - moved)
           /\ (dac = t) <=> (ramp.calls >= needed)
           /\ (ramp.from = 0 /\ t = 4095) => needed = 819

\* the ramp from 0 to full scale has just arrived, on its 819th call
C28_Witness ==
    /\ ramp.from = 0
    /\ ramp.target = MCP4921_MAX_VALUE
    /\ ramp.calls = 819
    /\ dac = MCP4921_MAX_VALUE
    /\ rampToward(dac, ramp.target) = dac

\* C29: with ambientK above setpointK, tempKToDacValue is 0 for every
\* tempK >= ambientK, maxDac for every tempK <= setpointK, always within
\* 0..maxDac, and never smaller for a lower temperature.
C29_ClampedMonotone ==
    LET f(t) == tempKToDacValue(t, conv.ambientK, conv.setpointK, conv.maxDac)
    IN  /\ conv.result = f(conv.tempK)
        /\ conv.tempK >= conv.ambientK => conv.result = 0
        /\ conv.tempK <= conv.setpointK => conv.result = conv.maxDac
        /\ conv.result \in 0..conv.maxDac
        /\ \A colder \in ConvTemps :
              colder <= conv.tempK => f(colder) >= conv.result

\* a call inside the ramp with a value strictly inside the range, for which
\* a temperature one kelvin lower gives a strictly greater value
C29_Witness ==
    /\ conv.setpointK < conv.tempK
    /\ conv.tempK < conv.ambientK
    /\ 0 < conv.result
    /\ conv.result < conv.maxDac
    /\ tempKToDacValue(conv.tempK - 1, conv.ambientK, conv.setpointK, conv.maxDac)
          > conv.result

\* the call is inside the ramp: ambientK > tempK > setpointK
Interior == conv.ambientK > conv.tempK /\ conv.tempK > conv.setpointK

\* C30 as stated: inside the ramp the result is maxDac * (ambientK - tempK)
\* / (ambientK - setpointK) rounded to the nearest integer.
C30_RoundedInterpolation ==
    Interior =>
        conv.result =
            (2 * conv.maxDac * (conv.ambientK - conv.tempK)
                + (conv.ambientK - conv.setpointK))
            \div (2 * (conv.ambientK - conv.setpointK))

\* C30 amended: inside the ramp the result is maxDac * (ambientK - tempK)
\* / (ambientK - setpointK) truncated to an integer (rounded down), which
\* lies in 0..maxDac.
C30_TruncatedInterpolation ==
    Interior =>
        /\ conv.result =
              (conv.maxDac * (conv.ambientK - conv.tempK))
              \div (conv.ambientK - conv.setpointK)
        /\ conv.result \in 0..conv.maxDac

\* the default ramp at 240 K: the quotient is 1037.9, the result 1037
C30_Witness ==
    /\ conv.ambientK = AMBIENT_START_K
    /\ conv.setpointK = SETPOINT_K
    /\ conv.maxDac = MCP4921_MAX_VALUE
    /\ conv.tempK = 240
    /\ conv.result = 1037

(***************************************************************************)
(* C31: every state change made by update(), start(), stop() or off() sets *)
(* the state entry timestamp to the nowMs of that call, a call that does   *)
(* not change the state leaves the timestamp as it was, and                *)
(* getTimeInState() is millis() minus that timestamp: 0 right after a      *)
(* transition.                                                             *)
(***************************************************************************)
EntryFollows(st) ==
    /\ st.currentState # sm.currentState =>
          /\ st.currentStateEntryMs = now
          /\ getTimeInState(st, now) = 0
    /\ st.currentState = sm.currentState =>
          st.currentStateEntryMs = sm.currentStateEntryMs
    /\ \A millis \in CallTimes :
          getTimeInState(st, millis) = millis - st.currentStateEntryMs

C31_DwellResets ==
    /\ \A i \in Inputs : EntryFollows(tick(i).st)
    /\ \A tempK \in Temps : EntryFollows(start(sm, now, tempK))
    /\ EntryFollows(stop(sm, now))
    /\ EntryFollows(off(sm, now))

\* a tick at a later time than the entry of the state moves the machine on
\* and the dwell time restarts from 0, while another tick leaves it running
C31_Witness ==
    /\ sm.currentStateEntryMs < now
    /\ getTimeInState(sm, now) >= SETTLE_DURATION_MS
    /\ \E i \in Inputs :
          /\ tick(i).st.currentState \notin {sm.currentState, "Fault"}
          /\ getTimeInState(tick(i).st, now) = 0
    /\ \E i \in Inputs :
          /\ tick(i).st.currentState = sm.currentState
          /\ getTimeInState(tick(i).st, now) = getTimeInState(sm, now)

(***************************************************************************)
(* C32: after a start() that takes effect at t1 (any t1, 0 included),      *)
(* getOnStateDuration() is millis() - t1 while running; after a stop() or  *)
(* off() at t2 >= t1 it is t2 - t1, at every later clock value and after   *)
(* every later update() tick.  The start is made here, at t1 = now.        *)
(***************************************************************************)
OnDurationAfterStart(t1, tempK) ==
    LET s1 == start(sm, t1, tempK)
    IN  /\ \A millis \in CallTimes : getOnStateDuration(s1, millis) = millis - t1
        /\ \A t2 \in CallTimes :
              \A s2 \in {stop(s1, t2), off(s1, t2)} :
                 \A millis \in {m \in CallTimes : m >= t2} :
                    /\ getOnStateDuration(s2, millis) = t2 - t1
                    /\ \A i \in Inputs :
                          getOnStateDuration(
                              update(s2, i.tempK, i.coolingRate, i.rmsVoltage,
                                     i.stalled, millis, i.overstroke).st,
                              millis) = t2 - t1

C32_OnDuration ==
    ~sm.running => \A tempK \in Temps : OnDurationAfterStart(now, tempK)

(***************************************************************************)
(* C33: the (FAULT, READY) indicator modes of every Output are those of    *)
(* the documented state table, in which the Fault row is (solid red, off). *)
(***************************************************************************)
DocumentedModes(s) ==
    CASE s = "Idle" -> <<"SolidRed", "Off">>
      [] s = "CoarseCooldown" -> <<"FlashFastRed", "Off">>
      [] s = "FineCooldown" -> <<"FlashFastRed", "FlashSlowGreen">>
      [] s \in {"Overshoot", "Settle"} -> <<"FlashFastRed", "FlashFastGreen">>
      [] s \in {"Baseline", "Operating"} -> <<"Off", "SolidGreen">>
      [] s = "Fault" -> <<"SolidRed", "Off">>

DocumentedStates ==
    {"Idle", "CoarseCooldown", "FineCooldown", "Overshoot", "Settle",
     "Baseline", "Operating", "Fault"}

C33_DocumentedIndicators ==
    \A i \in Inputs :
        LET o == tick(i).out
        IN  o.state \in DocumentedStates =>
               <<o.faultIndMode, o.readyIndMode>> = DocumentedModes(o.state)

(***************************************************************************)
(* C35: the Output of every update() call describes the state the call    *)
(* leaves the machine in: Output.state is getState(), and the relays, the  *)
(* indicator modes, the DAC target and the status text are those of that   *)
(* state, also on a tick that performs a transition (to Fault included).   *)
(***************************************************************************)
OutputOfState(st, i) ==
    LET r == relaysAndIndicators(st.currentState)
    IN  [state |-> st.currentState,
         dacTarget |-> IF st.currentState \in CooldownStates
                          THEN applyBackoff(cooldownDacTarget(i.tempK, i.coolingRate),
                                            st.backoffDacOffset)
                          ELSE 0,
         bypassRelay |-> r.bypassRelay,
         alarmRelay |-> r.alarmRelay,
         faultIndMode |-> r.faultIndMode,
         readyIndMode |-> r.readyIndMode,
         statusText |-> statusTextForState(st.currentState, st.faultReason),
         backoffCount |-> st.backoffCount]

C35_OutputOfNewState ==
    \A i \in Inputs : tick(i).out = OutputOfState(tick(i).st, i)

\* a running state from which one tick goes to Fault and another to a
\* different running state, each with the Output of the state it enters
C35_Witness ==
    /\ sm.currentState = "FineCooldown"
    /\ \E i \in Inputs :
          /\ tick(i).st.currentState = "Fault"
          /\ tick(i).out.state = "Fault"
          /\ tick(i).out.alarmRelay
    /\ \E i \in Inputs :
          /\ tick(i).st.currentState = "Settle"
          /\ tick(i).out.state = "Settle"
          /\ ~tick(i).out.bypassRelay

C37_ResumeStable ==
    ~sm.running =>
        \A tempK \in Temps, coolingRate \in Rates, millis \in CallTimes :
            \A rmsVoltage \in {v \in Voltages : v <= RMS_MAX_VOLTAGE_VDC} :
                LET s == start(sm, now, tempK)
                    r == update(s, tempK, coolingRate, rmsVoltage, FALSE,
                                millis, FALSE)
                IN  /\ s.running
                    /\ r.st.currentState = s.currentState
                    /\ r.out.state = s.currentState

\* a stopped machine that was running before, restarted inside the band
\* and above the coarse threshold
C37_Witness ==
    /\ sm.currentState = "Idle"
    /\ sm.onStateMs < now
    /\ start(sm, now, SETPOINT_K + SETPOINT_TOLERANCE_K).currentState = "Settle"
    /\ update(start(sm, now, SETPOINT_K + SETPOINT_TOLERANCE_K),
              SETPOINT_K + SETPOINT_TOLERANCE_K, 0, RMS_MAX_VOLTAGE_VDC, FALSE,
              now, FALSE).st.currentState = "Settle"
    /\ update(start(sm, now, COARSE_FINE_THRESHOLD_K),
              COARSE_FINE_THRESHOLD_K, 0, RMS_MAX_VOLTAGE_VDC, FALSE,
              now, FALSE).st.currentState = "CoarseCooldown"

(***************************************************************************)
(* C38: from Settle, Baseline and Operating update() never goes back to    *)
(* CoarseCooldown, FineCooldown or Overshoot and its dacTarget is 0: the   *)
(* successors are Settle -> {Settle, Baseline, Fault}, Baseline ->         *)
(* {Baseline, Operating, Fault} and Operating -> {Operating, Fault}.       *)
(***************************************************************************)
SetpointSuccessors(s) ==
    CASE s = "Settle" -> {"Settle", "Baseline", "Fault"}
      [] s = "Baseline" -> {"Baseline", "Operating", "Fault"}
      [] s = "Operating" -> {"Operating", "Fault"}

C38_NoRegression ==
    sm.currentState \in {"Settle", "Baseline", "Operating"} =>
        \A i \in Inputs :
            /\ tick(i).st.currentState \in SetpointSuccessors(sm.currentState)
            /\ tick(i).out.dacTarget = 0

\* Settle after a tick with the temperature out of the band, and a further
\* tick far above the band that stays in Settle
C38_Witness ==
    /\ sm.currentState = "Settle"
    /\ strayed
    /\ \E i \in Inputs :
          /\ i.tempK > COARSE_FINE_THRESHOLD_K
          /\ i.rmsVoltage <= RMS_MAX_VOLTAGE_VDC
          /\ tick(i).st.currentState = "Settle"
          /\ tick(i).out.dacTarget = 0

(***************************************************************************)
(* C34: a command that processLine rejects leaves the state machine as it  *)
(* is.  'start' while running or in a state other than Idle and Off,       *)
(* 'stop' while not running and 'off' in Off each answer with one [ERR]    *)
(* line and change no field; so does an unknown command; an empty or       *)
(* blank line prints nothing.  Each line below is given with the command   *)
(* its sender means by it.                                                 *)
(***************************************************************************)
Lines ==
    {[chars |-> <<"s", "t", "a", "r", "t">>, means |-> "start"],
     [chars |-> <<" ", "\t", "s", "t", "a", "r", "t", " ">>, means |-> "start"],
     [chars |-> <<"s", "t", "o", "p">>, means |-> "stop"],
     [chars |-> <<"s", "t", "o", "p", "\t", "x">>, means |-> "stop"],
     [chars |-> <<"o", "f", "f">>, means |-> "off"],
     [chars |-> <<"s", "t", "a", "r", "t", "s">>, means |-> "unknown"],
     [chars |-> <<"o", "f">>, means |-> "unknown"],
     [chars |-> <<"S", "T", "O", "P">>, means |-> "unknown"],
     [chars |-> <<"t", "e", "l", "e", "m", "e", "t", "r", "y">>, means |-> "unknown"],
     [chars |-> <<>>, means |-> "nothing"],
     [chars |-> <<" ", "\t", " ">>, means |-> "nothing"]}

Rejected(means) ==
    \/ means = "start" /\ (sm.running \/ sm.currentState \notin {"Idle", "Off"})
    \/ means = "stop" /\ ~sm.running
    \/ means = "off" /\ sm.currentState = "Off"
    \/ means = "unknown"

C34_RejectedCommands ==
    \A line \in Lines, tempK \in Temps, telemetryOn \in BOOLEAN :
        LET r == processLine(sm, telemetryOn, line.chars, now, tempK)
        IN  /\ Rejected(line.means) =>
                  /\ Len(r.out) = 1
                  /\ r.out[1].tag = "ERR"
                  /\ r.st = sm
                  /\ r.telemetryOn = telemetryOn
            /\ line.means = "nothing" =>
                  /\ r.out = <<>>
                  /\ r.st = sm
                  /\ r.telemetryOn = telemetryOn

\* a latched fault, where 'start' and 'stop' are rejected and 'off' is not
C34_Witness ==
    /\ sm.currentState = "Fault"
    /\ ~sm.running
    /\ now > sm.currentStateEntryMs
    /\ processLine(sm, TRUE, <<"s", "t", "a", "r", "t">>, now, AMBIENT_START_K).out
          = <<Response("ERR", "Cannot start: not in Idle or Off state")>>
    /\ processLine(sm, TRUE, <<"s", "t", "o", "p">>, now, AMBIENT_START_K).out
          = <<Response("ERR", "Not currently running")>>
    /\ processLine(sm, TRUE, <<"o", "f", "f">>, now, AMBIENT_START_K).st.currentState
          = "Off"

(***************************************************************************)
(* C40: serviceADCPin writes inside the acquisition table only: the index  *)
(* NumAcq & 0x7F of every write is below DEF_NB_ACQ, so that no raw        *)
(* sample is stored over the Average field that follows the table.         *)
(***************************************************************************)
C40_WritesInsideTable ==
    acq.n > 0 => acq.index < DEF_NB_ACQ

(***************************************************************************)
(* C39: in the control loop the DAC output follows the target through the  *)
(* slew limiter only.  From the control tick that enters a state whose     *)
(* target is 0, and while the machine stays in such states, the output     *)
(* never increases, falls by at most DAC_MAX_STEP_PER_INTERVAL per control *)
(* tick and is 0 after ceil(value / DAC_MAX_STEP_PER_INTERVAL) control     *)
(* ticks, value being the output before that tick.                         *)
(***************************************************************************)
TicksToZero(value) ==
    (value + DAC_MAX_STEP_PER_INTERVAL - 1) \div DAC_MAX_STEP_PER_INTERVAL

C39_CoastToZero ==
    coast.active =>
        /\ dac = Max(coast.from - DAC_MAX_STEP_PER_INTERVAL * coast.calls, 0)
        /\ dac <= coast.from
        /\ coast.calls >= TicksToZero(coast.from) => dac = 0
        /\ coast.calls < TicksToZero(coast.from) => dac > 0

\* an output that is not a multiple of the step has come down to 0 in
\* ceil(value / step) control ticks
C39_Witness ==
    /\ coast.active
    /\ coast.from > 0
    /\ coast.from % DAC_MAX_STEP_PER_INTERVAL # 0
    /\ coast.calls = TicksToZero(coast.from)
    /\ dac = 0

====
